---- MODULE Spec2Model ----
(***************************************************************************)
(* State-machine model of the PCB editor core: the scene engine            *)
(* (Engine.addPads / addTraces / addComponent / setBoard), the instanced   *)
(* pad batch (createPads), the interaction controller (InteractionManager) *)
(* the persistence steps (loadBoard, serializeBoard) and the property      *)
(* inspector's patch path (App.handlePropertyUpdate).                      *)
(*                                                                         *)
(* Lengths are integers in units of 0.0001 world units, so that 0.8, 0.81  *)
(* and the outline nudge 0.0005 are all exact.  The single-precision       *)
(* rounding of the instance buffer is below that resolution and is not     *)
(* represented: two lengths are equal when they agree to 0.0001.           *)
(***************************************************************************)
EXTENDS Integers, Sequences, FiniteSets, TLC

VARIABLES
  board,       \* engine.board: 0 (null) or the index in boards of the current board
  boards,      \* heap: every board mesh built by createBoard, in creation order
  padsGroup,   \* engine.padsGroup: 0 (null) or the index in groups of the current group
  groups,      \* heap: every THREE.Group built by createPads, in creation order
  traces,      \* engine.traces: indices into meshes
  components,  \* engine.components: indices into meshes
  meshes,      \* heap: every standalone drawable built by createTrace / addComponent
  im,          \* the InteractionManager's fields (with transformControls.object / userData)
  selected,    \* App's React state `selected` (the listener's last snapshot)
  life,        \* the engine's lifecycle fields and the browser's pending animation frames
  emitted,     \* the notifications onSelectionChange received during the last handler
  steps,       \* how many operations and handlers have run
  ev           \* the last handler that ran, with its input and its log

vars == <<board, boards, padsGroup, groups, traces, components, meshes, im, selected, life,
          emitted, steps, ev>>

---------------------------------------------------------------------------
(* Bounds of the model *)

\* longest pad list handed to the engine
MaxPads == 2
\* longest trace list handed to the engine
MaxTraces == 2
\* number of pad groups ever built (initial build and rebuilds)
MaxGroups == 2
\* number of standalone drawables ever built
MaxMeshes == 4
\* number of boards ever built
MaxBoards == 2
\* pads in the pad grid and demo traces built when the application mounts
MountPads == 2
MountTraces == 1
\* number of operations and handlers in one behaviour
MaxSteps == 3
\* number of clicks, drags and patches in one editing session
MaxEdits == 4

---------------------------------------------------------------------------
(* Program constants *)

Unit == 10000
\* y written by the drag handler for a pad (0.8) and for a trace (0.81)
DragPadY == 8000
DragTraceY == 8100
\* y written by the property patch for a pad (0.8) and for a trace (0.81)
PatchPadY == 8000
PatchTraceY == 8100
\* toVec3's defaultY as passed for pads / components (0.8) and for trace points (0.81)
HydratePadY == 8000
HydrateTraceY == 8100
\* the outline batch's nudge (0.0005)
EdgeNudge == 5
\* a y that is on neither surface (0.5), used by inputs
OffY == 5000

\* the surface offsets: pads rest at 0.8, traces at 0.81
SurfaceOffsetPad == DragPadY
SurfaceOffsetTrace == DragTraceY

Undef == 0 - 1
NoId == <<>>
NoVec == <<>>
\* a key that the object does not have (Undef: the key is there, its value is undefined)
Absent == 0 - 2

\* what the running handler did besides changing fields: an entry of s.log
Logged(s, what) == [s EXCEPT !.log = Append(@, what)]

NoneRef == <<"none", 0>>
PadsRef(g) == <<"pads", g>>
MeshRef(m) == <<"mesh", m>>
DummyRef == <<"dummy", 0>>

---------------------------------------------------------------------------
(* Object3D transforms: updateMatrix composes, Matrix4.decompose recovers *)

FlatRot == "rotX(-PI/2)"

Abs(n) == IF n < 0 THEN 0 - n ELSE n

\* array[k - 1] in JavaScript: undefined past the end
At(array, k) == IF k \in DOMAIN array THEN array[k] ELSE Undef

\* Object3D.updateMatrix: matrix.compose(position, quaternion, scale)
Compose(position, rot, scale) == [t |-> position, r |-> rot, s |-> scale]

\* Matrix4.decompose: the translation column, the column lengths as scale
\* (the x scale negated when the determinant is negative), the rest as rotation
Decompose(m) ==
  LET det == m.s[1] * m.s[2] * m.s[3]
      sx  == IF det < 0 THEN 0 - Abs(m.s[1]) ELSE Abs(m.s[1])
  IN  [position |-> m.t, rot |-> m.r, scale |-> <<sx, Abs(m.s[2]), Abs(m.s[3])>>]

---------------------------------------------------------------------------
(* createPads (primitives/Pads.js) *)

\* `new THREE.Group()` returned for an empty list: no pad mesh, no outline mesh.
\* A Group itself has neither geometry nor material (hasGeometry = FALSE);
\* `disposed` records whether its child meshes' geometry/material were disposed.
EmptyGroup ==
  [hasMesh |-> FALSE, count |-> 0, matrix |-> <<>>, idMap |-> <<>>, edge |-> <<>>,
   uHovered |-> Undef, uSelected |-> Undef, boundsFresh |-> TRUE,
   hasGeometry |-> FALSE, inScene |-> FALSE, disposed |-> FALSE]

\* a createPads that stores the size as [h, w]
PadMetaSwapped(pad, i) ==
  [id |-> IF pad.id = NoId THEN <<"pad_", i>> ELSE pad.id,
   size |-> <<At(pad.size, 2), At(pad.size, 1)>>,
   position |-> <<pad.position[1], pad.position[2], pad.position[3]>>,
   instanceId |-> i]

\* idMap[i] of createPads for entry pad at index i
PadMeta(pad, i) ==
  [id |-> IF pad.id = NoId THEN <<"pad_", i>> ELSE pad.id,
   size |-> <<At(pad.size, 1), At(pad.size, 2)>>,
   position |-> <<pad.position[1], pad.position[2], pad.position[3]>>,
   instanceId |-> i]

PadMatrix(pad) ==
  Compose(<<pad.position[1], pad.position[2], pad.position[3]>>, FlatRot,
          <<At(pad.size, 1), At(pad.size, 2), 1>>)

EdgeMatrix(pad) ==
  Compose(<<pad.position[1], pad.position[2], pad.position[3] + EdgeNudge>>, FlatRot,
          <<At(pad.size, 1), At(pad.size, 2), 1>>)

\* a createPads whose loop starts at index 1
PadIndicesFromOne(data) == 1 .. (Len(data) - 1)

\* the indices createPads writes: data.forEach((pad, i) => ...)
PadIndices(data) == 0 .. (Len(data) - 1)

createPads(data) ==
  IF Len(data) = 0 THEN EmptyGroup
  ELSE [hasMesh |-> TRUE,
        count |-> Len(data),
        matrix |-> [i \in PadIndices(data) |-> PadMatrix(data[i + 1])],
        idMap |-> [i \in PadIndices(data) |-> PadMeta(data[i + 1], i)],
        edge |-> [i \in PadIndices(data) |-> EdgeMatrix(data[i + 1])],
        uHovered |-> 0 - 1, uSelected |-> 0 - 1, boundsFresh |-> TRUE,
        hasGeometry |-> FALSE, inScene |-> FALSE, disposed |-> FALSE]

---------------------------------------------------------------------------
(* Standalone drawables: createTrace (primitives/Traces) and Engine.addComponent *)

\* Math.PI / 2 in units of 0.0001 rad
HalfPi == 15708

\* createTrace returns null for a zero-length segment
NullMesh ==
  [kind |-> "null", type |-> "", id |-> NoId, position |-> NoVec, size |-> NoVec,
   width |-> Undef, radius |-> Undef, geom |-> NoVec, start |-> NoVec, end |-> NoVec,
   rotation |-> NoVec,
   exportable |-> FALSE, uHovered |-> Undef, uSelected |-> Undef,
   hasGeometry |-> FALSE, inScene |-> FALSE, disposed |-> FALSE]

\* new THREE.Vector3().addVectors(p1, p2).multiplyScalar(0.5)
Mid(p1, p2) == <<(p1[1] + p2[1]) \div 2, (p1[2] + p2[2]) \div 2, (p1[3] + p2[3]) \div 2>>

\* a createTrace that builds a mesh for a zero-length segment as well
createTraceAlways(start, end, width) ==
  [NullMesh EXCEPT !.kind = "trace", !.type = "trace", !.exportable = TRUE,
                   !.start = start, !.end = end, !.width = width,
                   !.position = Mid(start, end),
                   !.geom = <<width>>,
                   !.rotation = <<0 - HalfPi, 0, 0>>,
                   !.uHovered = 0 - 1, !.uSelected = 0 - 1, !.hasGeometry = TRUE]

\* The mesh carries the copper ShaderMaterial (uniforms start at -1); userData.id is never
\* set. The plane's length and its rotation about y (atan2 of the direction) are cosmetic
\* and are not carried.
createTrace(start, end, width) ==
  IF start = end THEN NullMesh
  ELSE [NullMesh EXCEPT !.kind = "trace", !.type = "trace", !.exportable = TRUE,
                        !.start = start, !.end = end, !.width = width,
                        !.position = Mid(start, end),
                        !.geom = <<width>>,
                        !.rotation = <<0 - HalfPi, 0, 0>>,
                        !.uHovered = 0 - 1, !.uSelected = 0 - 1, !.hasGeometry = TRUE]

\* Engine._disposeObject: disposes obj.geometry and obj.material when the object has them
disposeObject(obj) == IF obj.hasGeometry THEN [obj EXCEPT !.disposed = TRUE] ELSE obj

\* scene.remove(obj); this._disposeObject(obj).  A material that has left the scene is
\* never drawn and never written again (_updateShaderUniforms walks the scene), so its
\* uniform values stop being part of the state.
RemoveAndDispose(obj) ==
  disposeObject([obj EXCEPT !.inScene = FALSE, !.uHovered = Undef, !.uSelected = Undef])

\* Engine.addPads on the engine state s (a record of the engine's fields and the heap)
addPads(s, padArray) ==
  LET s1 == IF s.padsGroup # 0
            THEN [s EXCEPT !.groups[s.padsGroup] = RemoveAndDispose(@), !.padsGroup = 0]
            ELSE s
      group == [createPads(padArray) EXCEPT !.inScene = TRUE]
  IN  [s1 EXCEPT !.groups = Append(@, group), !.padsGroup = Len(s1.groups) + 1]

\* the indices of s.traces / s.components as a set
Range(seq) == {seq[i] : i \in DOMAIN seq}

\* a clearing step that takes the old traces out of the scene but keeps the list
clearTracesKeepList(s) ==
  IF Len(s.traces) > 0
  THEN [s EXCEPT !.meshes = [m \in DOMAIN s.meshes |->
                               IF m \in Range(s.traces) THEN RemoveAndDispose(s.meshes[m])
                               ELSE s.meshes[m]]]
  ELSE s

clearTraces(s) ==
  IF Len(s.traces) > 0
  THEN [s EXCEPT !.meshes = [m \in DOMAIN s.meshes |->
                               IF m \in Range(s.traces) THEN RemoveAndDispose(s.meshes[m])
                               ELSE s.meshes[m]],
                 !.traces = <<>>]
  ELSE s

RECURSIVE pushTraces(_, _)
pushTraces(s, traceArray) ==
  IF traceArray = <<>> THEN s
  ELSE LET t == Head(traceArray)
           mesh == createTrace(t.start, t.end, t.width)
           s1 == IF mesh = NullMesh THEN s
                 ELSE [s EXCEPT !.meshes = Append(@, [mesh EXCEPT !.inScene = TRUE]),
                                !.traces = Append(@, Len(s.meshes) + 1)]
       IN  pushTraces(s1, Tail(traceArray))

\* Engine.addTraces
addTraces(s, traceArray) == pushTraces(clearTraces(s), traceArray)

\* Engine.addComponent's defaults and the via geometry
DefaultCompSize == <<4 * Unit, 2 * Unit, 1 * Unit>>
DefaultViaRadius == 4000
DefaultThickness == 16000
ViaExtra == 4000

\* a || b on numbers: undefined and 0 are falsy
OrNum(a, b) == IF a = Undef \/ a = Absent \/ a = 0 THEN b ELSE a

\* this.board?.userData?.boardConfig?.thickness != null ? ... : 1.6
boardThickness(s) ==
  IF s.board # 0 /\ s.boards[s.board].config.thickness \notin {Undef, Absent}
  THEN s.boards[s.board].config.thickness
  ELSE DefaultThickness

\* the mesh Engine.addComponent builds for component (a record type, id, position, size,
\* rotation, radius; "" / NoId / NoVec / Undef for a field that is not given)
componentMesh(s, component) ==
  LET type == component.type
      position == IF component.position = NoVec THEN <<0, 0, 0>> ELSE component.position
      size == IF component.size = NoVec THEN DefaultCompSize ELSE component.size
      r == OrNum(component.radius, OrNum(At(size, 1), DefaultViaRadius))
      geom == IF type = "via" THEN <<r, r, boardThickness(s) + ViaExtra>>
              ELSE <<At(size, 1), OrNum(At(size, 3), 1 * Unit), At(size, 2)>>
  IN  [NullMesh EXCEPT !.kind = "component",
                       !.type = IF type = "" THEN "component" ELSE type,
                       !.id = component.id,
                       !.position = <<position[1], position[2], position[3]>>,
                       !.size = size,
                       !.radius = IF type = "via" THEN r ELSE Undef,
                       !.geom = geom,
                       !.rotation = IF Len(component.rotation) = 3 THEN component.rotation
                                    ELSE IF type = "via" THEN <<HalfPi, 0, 0>> ELSE <<0, 0, 0>>,
                       !.exportable = TRUE, !.hasGeometry = TRUE]

\* Engine.addComponent
addComponent(s, component) ==
  [s EXCEPT !.meshes = Append(@, [componentMesh(s, component) EXCEPT !.inScene = TRUE]),
            !.components = Append(@, Len(s.meshes) + 1)]

---------------------------------------------------------------------------
(* The board: createBoard (engine/Board.js) and Engine.setBoard *)

DefaultBoardWidth == 1000000
DefaultBoardHeight == 800000
DefaultBoardThickness == 16000

\* { ...DEFAULT_BOARD_CONFIG, ...config }: a key of config wins even when its value is undefined
createBoard(config) ==
  [config |-> [width |-> IF config.width = Absent THEN DefaultBoardWidth ELSE config.width,
               height |-> IF config.height = Absent THEN DefaultBoardHeight ELSE config.height,
               thickness |-> IF config.thickness = Absent THEN DefaultBoardThickness
                             ELSE config.thickness],
   position |-> <<0, 0, 0>>,
   hasGeometry |-> TRUE, inScene |-> FALSE, disposed |-> FALSE]

\* a setBoard that takes the previous board out of the scene without disposing it
setBoardNoDispose(s, config) ==
  LET s1 == IF s.board # 0
            THEN [s EXCEPT !.boards[s.board] = [@ EXCEPT !.inScene = FALSE], !.board = 0]
            ELSE s
  IN  Logged([s1 EXCEPT !.boards = Append(@, [createBoard(config) EXCEPT !.inScene = TRUE]),
                        !.board = Len(s1.boards) + 1],
             "createBoard")

\* Engine.setBoard: the previous board leaves the scene and its geometry and material
\* are disposed in place
setBoard(s, config) ==
  LET s1 == IF s.board # 0
            THEN Logged([s EXCEPT !.boards[s.board] =
                                     [@ EXCEPT !.inScene = FALSE, !.disposed = TRUE],
                                  !.board = 0],
                        "disposeBoard")
            ELSE s
  IN  Logged([s1 EXCEPT !.boards = Append(@, [createBoard(config) EXCEPT !.inScene = TRUE]),
                        !.board = Len(s1.boards) + 1],
             "createBoard")

---------------------------------------------------------------------------
(* InteractionManager (interaction/InteractionManager) *)

NoDummy == [position |-> NoVec, rot |-> "", scale |-> NoVec]

\* the controller after its constructor: transformControls.object and userData are empty
InitIm ==
  [hoveredInstanceId |-> 0 - 1, selectedInstanceId |-> 0 - 1, selectedObject |-> NoneRef,
   tcObject |-> NoneRef, dummy |-> NoDummy, instanceMesh |-> 0, instanceId |-> Undef]

\* onSelectionChange(null)
NullSel ==
  [id |-> NoId, type |-> "null", position |-> NoVec, size |-> NoVec, width |-> Undef,
   area |-> 0, instanceId |-> Undef, object |-> NoneRef]

NoHit == [object |-> NoneRef, instanceId |-> Undef]

CompTypes == {"ic", "component", "connector", "capacitor", "via"}

\* App's callback: setSelected(selection ? { ...selection } : null)
notify(s, sel) == [s EXCEPT !.emitted = Append(@, sel), !.selected = sel]

\* a uniform push that reaches the pad batches but not the trace materials
updateShaderUniformsPadsOnly(s) ==
  [s EXCEPT
     !.groups = [g \in DOMAIN s.groups |->
                   IF s.groups[g].inScene /\ s.groups[g].hasMesh
                   THEN [s.groups[g] EXCEPT !.uHovered = s.im.hoveredInstanceId,
                                            !.uSelected = s.im.selectedInstanceId]
                   ELSE s.groups[g]]]

\* _updateShaderUniforms: every material in the scene that has the uniforms
updateShaderUniforms(s) ==
  [s EXCEPT
     !.groups = [g \in DOMAIN s.groups |->
                   IF s.groups[g].inScene /\ s.groups[g].hasMesh
                   THEN [s.groups[g] EXCEPT !.uHovered = s.im.hoveredInstanceId,
                                            !.uSelected = s.im.selectedInstanceId]
                   ELSE s.groups[g]],
     !.meshes = [m \in DOMAIN s.meshes |->
                   IF s.meshes[m].inScene /\ s.meshes[m].kind = "trace"
                   THEN [s.meshes[m] EXCEPT !.uHovered = s.im.hoveredInstanceId,
                                            !.uSelected = s.im.selectedInstanceId]
                   ELSE s.meshes[m]]]

\* a hover update that writes the index and the shader channels on every pointer move
updateHoverAlways(s, hit) ==
  LET newHoveredId == IF hit.instanceId # Undef THEN hit.instanceId ELSE 0 - 1
  IN  updateShaderUniforms([s EXCEPT !.im.hoveredInstanceId = newHoveredId])

\* _updateHover
updateHover(s, hit) ==
  LET newHoveredId == IF hit.instanceId # Undef THEN hit.instanceId ELSE 0 - 1
  IN  IF s.im.hoveredInstanceId # newHoveredId
      THEN updateShaderUniforms([s EXCEPT !.im.hoveredInstanceId = newHoveredId])
      ELSE s

padSnapshot(padData, position, instanceId, object) ==
  [id |-> padData.id, type |-> "pad", position |-> position,
   size |-> padData.size, width |-> Undef, area |-> padData.size[1] * padData.size[2],
   instanceId |-> instanceId, object |-> object]

traceSnapshot(mesh, object) ==
  [id |-> IF mesh.id = NoId THEN <<"trace">> ELSE mesh.id, type |-> "trace",
   position |-> mesh.position, size |-> NoVec,
   width |-> IF mesh.width = Undef THEN 0 ELSE mesh.width,
   area |-> 0, instanceId |-> 0 - 1, object |-> object]

componentSnapshot(mesh, object) ==
  [id |-> IF mesh.id = NoId THEN <<mesh.type>> ELSE mesh.id, type |-> mesh.type,
   position |-> mesh.position, size |-> mesh.size, width |-> Undef,
   area |-> 0, instanceId |-> 0 - 1, object |-> object]

\* the pad branch of _updateSelection
selectPad(s, object, instanceId) ==
  LET g == s.groups[object[2]]
  IN  IF instanceId \in DOMAIN g.idMap
      THEN LET padData == g.idMap[instanceId]
               dummy == Decompose(g.matrix[instanceId])
               s1 == [s EXCEPT !.im.selectedInstanceId = instanceId,
                               !.im.selectedObject = object,
                               !.im.tcObject = DummyRef,
                               !.im.instanceId = instanceId,
                               !.im.instanceMesh = object[2],
                               !.im.dummy = dummy]
           IN  notify(s1, padSnapshot(padData, dummy.position, instanceId, object))
      ELSE s

\* trace and component branches that select and notify but never attach the handle
selectMeshNoAttach(s, object) ==
  LET mesh == s.meshes[object[2]]
      s1 == [s EXCEPT !.im.selectedInstanceId = 0 - 1,
                      !.im.selectedObject = object]
  IN  IF mesh.type = "trace" THEN notify(s1, traceSnapshot(mesh, object))
      ELSE IF mesh.exportable /\ mesh.type \in CompTypes
           THEN notify(s1, componentSnapshot(mesh, object))
           ELSE s

\* the trace and component branches of _updateSelection
selectMesh(s, object) ==
  LET mesh == s.meshes[object[2]]
      s1 == [s EXCEPT !.im.selectedInstanceId = 0 - 1,
                      !.im.selectedObject = object,
                      !.im.tcObject = object]
  IN  IF mesh.type = "trace" THEN notify(s1, traceSnapshot(mesh, object))
      ELSE IF mesh.exportable /\ mesh.type \in CompTypes
           THEN notify(s1, componentSnapshot(mesh, object))
           ELSE s

\* _updateSelection
updateSelection(s, hit) ==
  IF hit = NoHit
  THEN updateShaderUniforms(
         notify([s EXCEPT !.im.selectedInstanceId = 0 - 1,
                          !.im.selectedObject = NoneRef,
                          !.im.tcObject = NoneRef], NullSel))
  ELSE IF hit.instanceId >= 0 /\ hit.object[1] = "pads"
       THEN updateShaderUniforms(selectPad(s, hit.object, hit.instanceId))
       ELSE updateShaderUniforms(selectMesh(s, hit.object))

\* the type tag the click handler's hits.find reads
hitType(s, hit) ==
  IF hit.object[1] = "pads" THEN "pads_copper" ELSE s.meshes[hit.object[2]].type

\* Array.prototype.find over the hits whose type tag is in types; NoHit for undefined
findHit(s, hits, types) ==
  LET I == {i \in DOMAIN hits : hitType(s, hits[i]) \in types}
  IN  IF I = {} THEN NoHit ELSE hits[CHOOSE i \in I : \A j \in I : i <= j]

\* a click handler that takes the nearest intersection whatever its type
onClickNearest(s, hits) ==
  IF Len(hits) > 0 THEN updateSelection(s, hits[1]) ELSE updateSelection(s, NoHit)

\* _onClick
onClick(s, hits) ==
  IF Len(hits) > 0
  THEN LET padHit == findHit(s, hits, {"pads_copper"})
           compHit == findHit(s, hits, CompTypes)
           bestHit == IF padHit # NoHit THEN padHit
                      ELSE IF compHit # NoHit THEN compHit ELSE hits[1]
       IN  updateSelection(s, bestHit)
  ELSE updateSelection(s, NoHit)

\* _onMouseMove
onMouseMove(s, hits) ==
  IF Len(hits) > 0 THEN updateHover(s, hits[1])
  ELSE IF s.im.hoveredInstanceId # 0 - 1
       THEN updateShaderUniforms([s EXCEPT !.im.hoveredInstanceId = 0 - 1])
       ELSE s

\* a pad branch that writes the instance transform and notifies, but leaves idMap alone
dragPadNoMeta(s) ==
  LET g == s.im.instanceMesh
      i == s.im.instanceId
      dummy == [s.im.dummy EXCEPT !.position[2] = DragPadY]
      s1 == [s EXCEPT !.im.dummy = dummy,
                      !.groups[g].matrix[i] = Compose(dummy.position, dummy.rot, dummy.scale),
                      !.groups[g].boundsFresh = TRUE]
  IN  IF i \in DOMAIN s1.groups[g].idMap
      THEN notify(s1, padSnapshot(s1.groups[g].idMap[i], dummy.position, i, PadsRef(g)))
      ELSE s1

\* the pad branch of _onTransformDrag
dragPad(s) ==
  LET g == s.im.instanceMesh
      i == s.im.instanceId
      dummy == [s.im.dummy EXCEPT !.position[2] = DragPadY]
      s1 == [s EXCEPT !.im.dummy = dummy,
                      !.groups[g].matrix[i] = Compose(dummy.position, dummy.rot, dummy.scale),
                      !.groups[g].boundsFresh = TRUE]
      s2 == IF i \in DOMAIN s1.groups[g].idMap
            THEN [s1 EXCEPT !.groups[g].idMap[i].position = dummy.position]
            ELSE s1
  IN  IF i \in DOMAIN s2.groups[g].idMap
      THEN notify(s2, padSnapshot(s2.groups[g].idMap[i], dummy.position, i, PadsRef(g)))
      ELSE s2

\* the trace branch of _onTransformDrag
dragTrace(s) ==
  LET m == s.im.selectedObject[2]
      s1 == [s EXCEPT !.meshes[m].position[2] = DragTraceY]
  IN  notify(s1, traceSnapshot(s1.meshes[m], s.im.selectedObject))

\* _onTransformDrag (also reached from _onTransformChange)
onTransformDrag(s) ==
  IF s.im.tcObject = NoneRef THEN s
  ELSE IF s.im.dummy # NoDummy /\ s.im.instanceMesh # 0 /\ s.im.instanceId >= 0
       THEN dragPad(s)
       ELSE IF s.im.selectedObject[1] = "mesh"
               /\ s.meshes[s.im.selectedObject[2]].type = "trace"
            THEN dragTrace(s)
            ELSE s

\* TransformControls moving the attached object to position p before it reports the change
moveHandle(s, p) ==
  IF s.im.tcObject = DummyRef THEN [s EXCEPT !.im.dummy.position = p]
  ELSE IF s.im.tcObject[1] = "mesh" THEN [s EXCEPT !.meshes[s.im.tcObject[2]].position = p]
       ELSE s

---------------------------------------------------------------------------
(* App.handlePropertyUpdate (App.jsx): update is one field of { x, z, width, height } *)

\* setMatrixAt leaves the mesh's bounding box and sphere as they were computed before
\* (boundsFresh = FALSE) until computeBoundingBox / computeBoundingSphere run again
patchPad(s, update) ==
  LET current == s.selected
      g == current.object[2]
      instanceId == current.instanceId
      dummy == Decompose(s.groups[g].matrix[instanceId])
      x == IF update.field = "x" THEN update.value ELSE dummy.position[1]
      z == IF update.field = "z" THEN update.value ELSE dummy.position[3]
      position == <<x, PatchPadY, z>>
      width == IF update.field = "width" THEN update.value
               ELSE IF current.size # NoVec THEN current.size[1] ELSE dummy.scale[1]
      height == IF update.field = "height" THEN update.value
                ELSE IF current.size # NoVec THEN current.size[2] ELSE dummy.scale[2]
      s1 == [s EXCEPT !.groups[g].matrix[instanceId] =
                         Compose(position, dummy.rot, <<width, height, dummy.scale[3]>>),
                      !.groups[g].boundsFresh = FALSE]
      s2 == IF instanceId \in DOMAIN s1.groups[g].idMap
            THEN [s1 EXCEPT !.groups[g].idMap[instanceId].position = position,
                            !.groups[g].idMap[instanceId].size = <<width, height>>]
            ELSE s1
  IN  [s2 EXCEPT !.selected = [current EXCEPT !.position = position,
                                              !.size = <<width, height>>,
                                              !.area = width * height]]

patchTrace(s, update) ==
  LET current == s.selected
      m == current.object[2]
      old == s.meshes[m].position
      position == <<IF update.field = "x" THEN update.value ELSE old[1],
                    PatchTraceY,
                    IF update.field = "z" THEN update.value ELSE old[3]>>
  IN  [s EXCEPT !.meshes[m].position = position,
                !.selected = [current EXCEPT !.position = position]]

handlePropertyUpdate(s, update) ==
  IF s.selected = NullSel THEN s
  ELSE IF s.selected.type = "pad" /\ s.selected.object # NoneRef /\ s.selected.instanceId >= 0
       THEN patchPad(s, update)
       ELSE IF s.selected.type = "trace" /\ s.selected.object # NoneRef
            THEN patchTrace(s, update)
            ELSE s

---------------------------------------------------------------------------
(* loadBoard (persistence/hydrate.js).  A document entry is a record with every key the  *)
(* hydrate step reads; a key the entry does not have holds "" (type), NoId, NoVec (an     *)
(* array) or Undef (a number).                                                            *)

NoEntry ==
  [type |-> "", id |-> NoId, pos |-> NoVec, position |-> NoVec, size |-> NoVec,
   w |-> Undef, h |-> Undef, width |-> Undef, height |-> Undef, thickness |-> Undef,
   points |-> NoVec, path |-> NoVec, start |-> NoVec, end |-> NoVec,
   rotation |-> NoVec, radius |-> Undef, drill |-> Undef]

NoDims == [width |-> Absent, height |-> Absent, thickness |-> Absent]
NoBoardDoc == [present |-> FALSE, width |-> Absent, height |-> Absent, thickness |-> Absent,
               dimensions |-> NoDims]
NoDoc == [board |-> NoBoardDoc, pads |-> <<>>, traces |-> <<>>, components |-> <<>>,
          holes |-> <<>>, vias |-> <<>>]

\* toVec3
toVec3(p, defaultY) ==
  IF Len(p) = 3 THEN p
  ELSE IF Len(p) = 2 THEN <<p[1], defaultY, p[2]>>
       ELSE <<0, defaultY, 0>>

\* a ?? b ?? undefined
Nullish(a, b) ==
  IF a \notin {Absent, Undef} THEN a ELSE IF b \notin {Absent, Undef} THEN b ELSE Undef

\* a || b on arrays: a missing array is falsy
OrVec(a, b) == IF a = NoVec THEN b ELSE a

\* step 1: the config handed to engine.setBoard
boardConfig(b) ==
  IF OrNum(b.dimensions.width, OrNum(b.dimensions.height, 0)) # 0
  THEN [width |-> Nullish(b.dimensions.width, b.width),
        height |-> Nullish(b.dimensions.height, b.height),
        thickness |-> Nullish(b.dimensions.thickness, b.thickness)]
  ELSE [width |-> b.width, height |-> b.height, thickness |-> b.thickness]

\* step 2: clear previous pads / traces / components
clearPads(s) ==
  IF s.padsGroup # 0
  THEN [s EXCEPT !.groups[s.padsGroup] = RemoveAndDispose(@), !.padsGroup = 0]
  ELSE s

clearComponents(s) ==
  IF Len(s.components) > 0
  THEN [s EXCEPT !.meshes = [m \in DOMAIN s.meshes |->
                               IF m \in Range(s.components)
                               THEN RemoveAndDispose(s.meshes[m])
                               ELSE s.meshes[m]],
                 !.components = <<>>]
  ELSE s

\* Array.prototype.filter on the type tag
RECURSIVE filterType(_, _)
filterType(entries, type) ==
  IF entries = <<>> THEN <<>>
  ELSE IF Head(entries).type = type
       THEN <<Head(entries)>> \o filterType(Tail(entries), type)
       ELSE filterType(Tail(entries), type)

\* a padArray element whose size prefers { width, height } to { w, h }
hydratePadWidthFirst(p, index) ==
  [id |-> IF p.id = NoId THEN <<"pad_", index>> ELSE p.id,
   position |-> toVec3(OrVec(p.pos, p.position), HydratePadY),
   size |-> OrVec(p.size, <<OrNum(p.width, OrNum(p.w, 1 * Unit)),
                            OrNum(p.height, OrNum(p.h, 1 * Unit))>>)]

\* step 3: one padArray element; index is the 0-based index in padsSource
hydratePad(p, index) ==
  [id |-> IF p.id = NoId THEN <<"pad_", index>> ELSE p.id,
   position |-> toVec3(OrVec(p.pos, p.position), HydratePadY),
   size |-> OrVec(p.size, <<OrNum(p.w, OrNum(p.width, 1 * Unit)),
                            OrNum(p.h, OrNum(p.height, 1 * Unit))>>)]

hydratePads(padsSource) == [k \in DOMAIN padsSource |-> hydratePad(padsSource[k], k - 1)]

DefaultTraceWidth == 5000

\* a polyline exploded into segments that all start at its first point
polySegmentsFan(points, width) ==
  [i \in 1 .. (Len(points) - 1) |->
     [start |-> toVec3(points[1], HydrateTraceY),
      end |-> toVec3(points[i + 1], HydrateTraceY),
      width |-> width]]

\* step 4: the segments of one trace entry
polySegments(points, width) ==
  [i \in 1 .. (Len(points) - 1) |->
     [start |-> toVec3(points[i], HydrateTraceY),
      end |-> toVec3(points[i + 1], HydrateTraceY),
      width |-> width]]

traceSegments(t) ==
  LET width == OrNum(t.width, OrNum(t.thickness, DefaultTraceWidth))
  IN  IF Len(t.points) >= 2 THEN polySegments(t.points, width)
      ELSE IF Len(t.path) >= 2 THEN polySegments(t.path, width)
           ELSE IF t.start # NoVec /\ t.end # NoVec
                THEN <<[start |-> toVec3(t.start, HydrateTraceY),
                        end |-> toVec3(t.end, HydrateTraceY),
                        width |-> width]>>
                ELSE <<>>

RECURSIVE processSegments(_)
processSegments(tracesSource) ==
  IF tracesSource = <<>> THEN <<>>
  ELSE traceSegments(Head(tracesSource)) \o processSegments(Tail(tracesSource))

HydrateCompSize == <<4 * Unit, 2 * Unit, 2 * Unit>>

\* step 5: the record handed to engine.addComponent for entry c
hydrateComponent(c) ==
  LET rawType == IF c.type = "" THEN "component" ELSE c.type
  IN  [type |-> IF rawType = "hole" THEN "via" ELSE rawType,
       id |-> c.id,
       position |-> toVec3(OrVec(c.pos, c.position), HydratePadY),
       size |-> IF c.size # NoVec THEN c.size ELSE HydrateCompSize,
       rotation |-> c.rotation,
       radius |-> OrNum(c.radius, c.drill)]

\* data.vias.map((v) => ({ ...v, type: v.type || "via" }))
viaEntries(vias) ==
  [k \in DOMAIN vias |-> [vias[k] EXCEPT !.type = IF @ = "" THEN "via" ELSE @]]

RECURSIVE addComponents(_, _)
addComponents(s, componentsSource) ==
  IF componentsSource = <<>> THEN s
  ELSE addComponents(addComponent(s, hydrateComponent(Head(componentsSource))),
                     Tail(componentsSource))

\* the jsonData argument: an object, or a text that JSON.parse reads as doc, reads as null
\* or rejects with a SyntaxError
JsonObject(doc) == [form |-> "object", wellFormed |-> TRUE, isNull |-> FALSE, doc |-> doc]
JsonText(doc) == [form |-> "text", wellFormed |-> TRUE, isNull |-> FALSE, doc |-> doc]
JsonNull == [form |-> "text", wellFormed |-> TRUE, isNull |-> TRUE, doc |-> NoDoc]
JsonMalformed == [form |-> "text", wellFormed |-> FALSE, isNull |-> FALSE, doc |-> NoDoc]

\* a loadBoard that clears the scene before it parses its argument
loadBoardClearFirst(s, jsonData) ==
  LET s0 == clearComponents(clearTraces(clearPads(s)))
  IN
  IF jsonData.form = "text" /\ ~jsonData.wellFormed THEN Logged(s0, "SyntaxError")
  ELSE IF jsonData.isNull THEN s0
  ELSE
  LET data == jsonData.doc
      s1 == IF data.board.present THEN setBoard(s0, boardConfig(data.board)) ELSE s0
      padsSource == data.pads \o filterType(data.components, "pad")
      s3 == IF Len(padsSource) > 0 THEN addPads(s1, hydratePads(padsSource)) ELSE s1
      tracesSource == data.traces \o filterType(data.components, "trace")
      segments == processSegments(tracesSource)
      s4 == IF Len(segments) > 0 THEN addTraces(s3, segments) ELSE s3
      componentsSource == data.components \o data.holes \o viaEntries(data.vias)
  IN  addComponents(s4, componentsSource)

\* a loadBoard that leaves the clearing of pads and traces to addPads and addTraces
loadBoardNoClear(s, jsonData) ==
  IF jsonData.form = "text" /\ ~jsonData.wellFormed THEN Logged(s, "SyntaxError")
  ELSE IF jsonData.isNull THEN s
  ELSE
  LET data == jsonData.doc
      s1 == IF data.board.present THEN setBoard(s, boardConfig(data.board)) ELSE s
      s2 == clearComponents(s1)
      padsSource == data.pads \o filterType(data.components, "pad")
      s3 == IF Len(padsSource) > 0 THEN addPads(s2, hydratePads(padsSource)) ELSE s2
      tracesSource == data.traces \o filterType(data.components, "trace")
      segments == processSegments(tracesSource)
      s4 == IF Len(segments) > 0 THEN addTraces(s3, segments) ELSE s3
      componentsSource == data.components \o data.holes \o viaEntries(data.vias)
  IN  addComponents(s4, componentsSource)

\* loadBoard; a SyntaxError of JSON.parse leaves the function at once
loadBoard(s, jsonData) ==
  IF jsonData.form = "text" /\ ~jsonData.wellFormed THEN Logged(s, "SyntaxError")
  ELSE IF jsonData.isNull THEN s
  ELSE
  LET data == jsonData.doc
      s1 == IF data.board.present THEN setBoard(s, boardConfig(data.board)) ELSE s
      s2 == clearComponents(clearTraces(clearPads(s1)))
      padsSource == data.pads \o filterType(data.components, "pad")
      s3 == IF Len(padsSource) > 0 THEN addPads(s2, hydratePads(padsSource)) ELSE s2
      tracesSource == data.traces \o filterType(data.components, "trace")
      segments == processSegments(tracesSource)
      s4 == IF Len(segments) > 0 THEN addTraces(s3, segments) ELSE s3
      componentsSource == data.components \o data.holes \o viaEntries(data.vias)
  IN  addComponents(s4, componentsSource)

---------------------------------------------------------------------------
(* serializeBoard (persistence/serialize): the exported document, in the shape loadBoard  *)
(* reads: the board config and a flat components list of pad and trace entries.           *)

\* result.board: the built-in default, or a copy of the current board's boardConfig
serializedBoard(s) ==
  IF s.board # 0
  THEN [NoBoardDoc EXCEPT !.present = TRUE,
                          !.width = s.boards[s.board].config.width,
                          !.height = s.boards[s.board].config.height,
                          !.thickness = s.boards[s.board].config.thickness]
  ELSE [NoBoardDoc EXCEPT !.present = TRUE,
                          !.width = DefaultBoardWidth,
                          !.height = DefaultBoardHeight,
                          !.thickness = DefaultBoardThickness]

\* one entry per key of the pad mesh's idMap, in key order
serializedPads(s) ==
  IF s.padsGroup # 0 /\ s.groups[s.padsGroup].hasMesh
  THEN LET idMap == s.groups[s.padsGroup].idMap
       IN  [k \in 1 .. Cardinality(DOMAIN idMap) |->
              [NoEntry EXCEPT !.type = "pad",
                              !.id = idMap[k - 1].id,
                              !.position = idMap[k - 1].position,
                              !.size = idMap[k - 1].size]]
  ELSE <<>>

\* one entry per trace of engine.traces that has start, end and width in its userData;
\* the id is userData.id || undefined
RECURSIVE serializedTraces(_, _)
serializedTraces(s, list) ==
  IF list = <<>> THEN <<>>
  ELSE LET trace == s.meshes[Head(list)]
           rest == serializedTraces(s, Tail(list))
       IN  IF trace.start = NoVec \/ trace.end = NoVec \/ trace.width = Undef THEN rest
           ELSE <<[NoEntry EXCEPT !.type = "trace",
                                  !.id = trace.id,
                                  !.start = trace.start,
                                  !.end = trace.end,
                                  !.width = trace.width]>> \o rest

\* serializeBoard
serializeBoard(s) ==
  [NoDoc EXCEPT !.board = serializedBoard(s),
                !.components = serializedPads(s) \o serializedTraces(s, s.traces)]

---------------------------------------------------------------------------
(* The render loop and teardown: Engine._animate / start / stop / setupInteraction /     *)
(* dispose and InteractionManager.dispose.  s.life holds the engine's lifecycle fields   *)
(* and the browser's pending animation frames; s.log lists what the running handler did. *)

\* the lifecycle fields right after the Engine constructor: nothing scheduled, the canvas
\* appended to the container, the resize observer observing, the grid helper in the scene
InitLife ==
  [isDisposed |-> FALSE,
   animationFrameId |-> 0,
   pending |-> {},
   issued |-> 0,
   interactionManager |-> FALSE,
   listening |-> FALSE,
   handleInScene |-> FALSE,
   handleDisposed |-> FALSE,
   resizeObserver |-> TRUE,
   gridDisposed |-> FALSE,
   controlsDisposed |-> FALSE,
   rendererDisposed |-> FALSE,
   canvasMounted |-> TRUE,
   container |-> TRUE]

\* Engine._animate: requests the next frame, then renders (the uTime uniform is elapsed
\* wall time and is not carried)
animate(s) ==
  IF s.life.isDisposed THEN s
  ELSE Logged([s EXCEPT !.life.issued = @ + 1,
                        !.life.animationFrameId = s.life.issued + 1,
                        !.life.pending = @ \cup {s.life.issued + 1}],
              "render")

\* a start that does not look whether the loop is already running
startAgain(s) ==
  IF s.life.isDisposed THEN s
  ELSE animate(s)

\* Engine.start
start(s) ==
  IF s.life.isDisposed THEN s
  ELSE IF s.life.animationFrameId # 0 THEN s
       ELSE animate(s)

\* a stop that forgets the frame id without cancelling the frame
stopNoCancel(s) ==
  IF s.life.animationFrameId # 0
  THEN Logged([s EXCEPT !.life.animationFrameId = 0], "cancel")
  ELSE s

\* Engine.stop
stop(s) ==
  IF s.life.animationFrameId # 0
  THEN Logged([s EXCEPT !.life.pending = @ \ {s.life.animationFrameId},
                        !.life.animationFrameId = 0],
              "cancel")
  ELSE s

\* the browser running the callback of pending frame id
tick(s, id) == animate([s EXCEPT !.life.pending = @ \ {id}])

\* InteractionManager.dispose: the canvas and handle listeners are removed, the handle is
\* disposed and leaves the scene
imDispose(s) ==
  Logged([s EXCEPT !.life.listening = FALSE,
                   !.life.handleDisposed = TRUE,
                   !.life.handleInScene = FALSE],
         "interaction")

\* Engine.setupInteraction: a new InteractionManager with its listeners and its handle
setupInteraction(s) ==
  LET s1 == IF s.life.interactionManager THEN imDispose(s) ELSE s
  IN  [s1 EXCEPT !.im = InitIm,
                 !.life.interactionManager = TRUE,
                 !.life.listening = TRUE,
                 !.life.handleInScene = TRUE,
                 !.life.handleDisposed = FALSE]

\* dispose, step by step
disposeLoop(s) == Logged(stop(s), "stop")

disposeInteraction(s) ==
  IF s.life.interactionManager
  THEN [imDispose(s) EXCEPT !.life.interactionManager = FALSE]
  ELSE s

disposeResize(s) == Logged([s EXCEPT !.life.resizeObserver = FALSE], "resize")

\* this.scene.traverse: geometry and material of every object that is in the scene
disposeResources(s) ==
  Logged([s EXCEPT
            !.boards = [b \in DOMAIN s.boards |->
                          IF s.boards[b].inScene
                          THEN [s.boards[b] EXCEPT !.disposed = TRUE] ELSE s.boards[b]],
            !.groups = [g \in DOMAIN s.groups |->
                          IF s.groups[g].inScene /\ s.groups[g].hasMesh
                          THEN [s.groups[g] EXCEPT !.disposed = TRUE] ELSE s.groups[g]],
            !.meshes = [m \in DOMAIN s.meshes |->
                          IF s.meshes[m].inScene
                          THEN [s.meshes[m] EXCEPT !.disposed = TRUE] ELSE s.meshes[m]],
            !.life.gridDisposed = TRUE],
         "resources")

disposeControls(s) == Logged([s EXCEPT !.life.controlsDisposed = TRUE], "controls")

disposeRenderer(s) ==
  Logged([s EXCEPT !.life.rendererDisposed = TRUE, !.life.canvasMounted = FALSE],
         "renderer")

\* a dispose that frees the scene's resources before it stops the loop
disposeResourcesFirst(s) ==
  IF s.life.isDisposed THEN s
  ELSE LET s0 == [s EXCEPT !.life.isDisposed = TRUE]
           s5 == disposeRenderer(disposeControls(disposeResize(
                   disposeInteraction(disposeLoop(disposeResources(s0))))))
       IN  [s5 EXCEPT !.life.container = FALSE]

\* a dispose without the disposed-flag guard
disposeUnguarded(s) ==
  LET s0 == [s EXCEPT !.life.isDisposed = TRUE]
      s5 == disposeRenderer(disposeControls(disposeResources(
              disposeResize(disposeInteraction(disposeLoop(s0))))))
  IN  [s5 EXCEPT !.life.container = FALSE]

\* Engine.dispose
dispose(s) ==
  IF s.life.isDisposed THEN s
  ELSE LET s0 == [s EXCEPT !.life.isDisposed = TRUE]
           s5 == disposeRenderer(disposeControls(disposeResources(
                   disposeResize(disposeInteraction(disposeLoop(s0))))))
       IN  [s5 EXCEPT !.life.container = FALSE]

---------------------------------------------------------------------------
(* The state as one record, for the handlers above *)

Cur ==
  [board |-> board, boards |-> boards, padsGroup |-> padsGroup, groups |-> groups,
   traces |-> traces, components |-> components, meshes |-> meshes,
   im |-> im, selected |-> selected, life |-> life, emitted |-> <<>>, log |-> <<>>]

Commit(s) ==
  /\ board' = s.board
  /\ boards' = s.boards
  /\ padsGroup' = s.padsGroup
  /\ groups' = s.groups
  /\ traces' = s.traces
  /\ components' = s.components
  /\ meshes' = s.meshes
  /\ im' = s.im
  /\ selected' = s.selected
  /\ life' = s.life
  /\ emitted' = s.emitted

\* the heaps stay within the model's bounds
InBounds(s) ==
  /\ Len(s.groups) <= MaxGroups
  /\ Len(s.meshes) <= MaxMeshes
  /\ Len(s.boards) <= MaxBoards

\* the handler that ran last: which one, its input, and what it did
Event(kind, data, log) == [kind |-> kind, data |-> data, log |-> log]

---------------------------------------------------------------------------
(* Inputs *)

\* entry i (0-based) of a pad list: with an id and on the pad surface (even i), or
\* without an id and off the surface (odd i)
PadEntry(i) ==
  IF i % 2 = 0
  THEN [id |-> <<"p", i>>, position |-> <<i * Unit, SurfaceOffsetPad, 0>>, size |-> <<1 * Unit, 2 * Unit>>]
  ELSE [id |-> NoId, position |-> <<i * Unit, OffY, 1 * Unit>>, size |-> <<2 * Unit, 1 * Unit>>]

PadList(n) == [k \in 1 .. n |-> PadEntry(k - 1)]
PadLists == {PadList(n) : n \in 0 .. MaxPads}

\* entry i (0-based) of a trace list: on the trace surface (even i) or off it (odd i)
TraceEntry(i) ==
  IF i % 2 = 0
  THEN [start |-> <<0, SurfaceOffsetTrace, i * Unit>>,
        end |-> <<2 * Unit, SurfaceOffsetTrace, i * Unit>>, width |-> 1 * Unit]
  ELSE [start |-> <<i * Unit, OffY, 0>>, end |-> <<i * Unit, OffY, 2 * Unit>>, width |-> 7000]

TraceList(n) == [k \in 1 .. n |-> TraceEntry(k - 1)]

\* an entry whose start and end are the same point
ZeroTrace ==
  [start |-> <<1 * Unit, SurfaceOffsetTrace, 1 * Unit>>,
   end |-> <<1 * Unit, SurfaceOffsetTrace, 1 * Unit>>, width |-> 1 * Unit]

\* a list of n entries that begins with the zero-length one
DegenerateList(n) == [k \in 1 .. n |-> IF k = 1 THEN ZeroTrace ELSE TraceEntry(k - 2)]

TraceLists ==
  {TraceList(n) : n \in 0 .. MaxTraces} \cup {DegenerateList(n) : n \in 1 .. MaxTraces}

NoComponent ==
  [type |-> "", id |-> NoId, position |-> NoVec, size |-> NoVec, rotation |-> NoVec,
   radius |-> Undef]

ComponentInputs ==
  { [NoComponent EXCEPT !.type = "ic", !.id = <<"u", 1>>, !.position = <<0, SurfaceOffsetPad, 0>>],
    [NoComponent EXCEPT !.type = "via", !.position = <<1 * Unit, 0, 0>>, !.radius = 3000],
    [NoComponent EXCEPT !.type = "resistor", !.id = <<"r", 1>>] }

\* the demo document's shape: a board, and pads and traces as tagged components
DocTagged ==
  [NoDoc EXCEPT
     !.board = [NoBoardDoc EXCEPT !.present = TRUE, !.width = 120 * Unit,
                                  !.height = 90 * Unit, !.thickness = 16000],
     !.components =
        << [NoEntry EXCEPT !.type = "pad", !.id = <<"cpu", 0>>,
                           !.position = <<0, SurfaceOffsetPad, 0>>,
                           !.size = <<16000, 16000>>],
           [NoEntry EXCEPT !.type = "trace", !.id = <<"demo", 1>>,
                           !.start = <<0, SurfaceOffsetTrace, 0>>,
                           !.end = <<2 * Unit, SurfaceOffsetTrace, 0>>,
                           !.width = 8000] >>]

\* a pads array: a 2-point position, and a 3-point position off the surface
DocPads ==
  [NoDoc EXCEPT
     !.pads = << [NoEntry EXCEPT !.pos = <<1 * Unit, 1 * Unit>>, !.w = 2 * Unit],
                 [NoEntry EXCEPT !.id = <<"p", 9>>, !.position = <<0, OffY, 0>>,
                                 !.size = <<1 * Unit, 1 * Unit>>] >>]

\* a polyline trace and a via, no pads
DocTraces ==
  [NoDoc EXCEPT
     !.traces = << [NoEntry EXCEPT !.points = << <<0, 0>>, <<10 * Unit, 0>>,
                                                 <<10 * Unit, 10 * Unit>> >>] >>,
     !.vias = << [NoEntry EXCEPT !.position = <<5 * Unit, 0, 5 * Unit>>, !.drill = 3000] >>]

\* a board given by a nested width alone, and a hole without a type tag
DocNested ==
  [NoDoc EXCEPT
     !.board = [NoBoardDoc EXCEPT !.present = TRUE,
                                  !.dimensions = [NoDims EXCEPT !.width = 120 * Unit]],
     !.holes = << [NoEntry EXCEPT !.position = <<5 * Unit, 0, 5 * Unit>>, !.drill = 3000] >>]

\* a board with nested and flat keys, a path trace with a thickness, a points trace with
\* a width and a hole tagged as one
DocMixed ==
  [NoDoc EXCEPT
     !.board = [NoBoardDoc EXCEPT !.present = TRUE, !.width = 90 * Unit, !.height = 60 * Unit,
                                  !.dimensions = [NoDims EXCEPT !.width = 110 * Unit,
                                                                !.thickness = 2 * Unit]],
     !.traces = << [NoEntry EXCEPT !.path = << <<0, 0, 0>>, <<4 * Unit, SurfaceOffsetTrace, 0>> >>,
                                   !.thickness = 3000],
                   [NoEntry EXCEPT !.points = << <<1 * Unit, 1 * Unit>>, <<1 * Unit, 6 * Unit>> >>,
                                   !.width = 8000, !.thickness = 3000] >>,
     !.holes = << [NoEntry EXCEPT !.type = "hole", !.id = <<"h", 1>>,
                                  !.pos = <<2 * Unit, 2 * Unit>>, !.radius = 5000,
                                  !.drill = 3000] >>]

\* a flat board whose thickness alone is nested
DocThick ==
  [NoDoc EXCEPT
     !.board = [NoBoardDoc EXCEPT !.present = TRUE, !.width = 90 * Unit,
                                  !.dimensions = [NoDims EXCEPT !.thickness = 2 * Unit]]]

\* pads that give their size in more than one form, a via with nothing but a position
\* and a via with a radius, a drill and a size
DocSizes ==
  [NoDoc EXCEPT
     !.pads = << [NoEntry EXCEPT !.position = <<0, SurfaceOffsetPad, 0>>,
                                 !.size = <<2 * Unit, 3 * Unit>>,
                                 !.w = 4 * Unit, !.h = 4 * Unit],
                 [NoEntry EXCEPT !.position = <<4 * Unit, SurfaceOffsetPad, 0>>,
                                 !.w = 2 * Unit, !.h = 3 * Unit,
                                 !.width = 4 * Unit, !.height = 4 * Unit] >>,
     !.vias = << [NoEntry EXCEPT !.position = <<5 * Unit, 0, 5 * Unit>>],
                 [NoEntry EXCEPT !.position = <<8 * Unit, 0, 5 * Unit>>,
                                 !.radius = 6000, !.drill = 3000,
                                 !.size = <<1 * Unit, 1 * Unit, 1 * Unit>>] >>]

\* a pad in the {width, height} form and a pad without any size, a via with a size only
\* and a via with a drill and a size
DocFallbacks ==
  [NoDoc EXCEPT
     !.pads = << [NoEntry EXCEPT !.position = <<0, SurfaceOffsetPad, 0>>,
                                 !.width = 3 * Unit, !.height = 4 * Unit],
                 [NoEntry EXCEPT !.position = <<4 * Unit, SurfaceOffsetPad, 0>>] >>,
     !.vias = << [NoEntry EXCEPT !.position = <<5 * Unit, 0, 5 * Unit>>,
                                 !.size = <<12000, 12000, 1 * Unit>>],
                 [NoEntry EXCEPT !.position = <<8 * Unit, 0, 5 * Unit>>,
                                 !.drill = 3000,
                                 !.size = <<2 * Unit, 2 * Unit, 1 * Unit>>] >>]

Docs ==
  {NoDoc, DocTagged, DocPads, DocTraces, DocNested, DocMixed, DocThick, DocSizes, DocFallbacks}

\* what loadBoard is handed: each document as an object, one of them as text, a text that
\* reads as null and a text that does not parse
JsonInputs == {JsonObject(doc) : doc \in Docs} \cup {JsonText(DocPads), JsonNull, JsonMalformed}

\* configs handed to setBoard: all three keys, or the width alone
BoardConfigs ==
  { [width |-> 50 * Unit, height |-> 40 * Unit, thickness |-> 2 * Unit],
    [width |-> 60 * Unit, height |-> Absent, thickness |-> Absent] }

\* what the raycaster can hit: an instance of the pad mesh in the scene, a trace, a component
Pickable ==
  (IF padsGroup # 0 /\ groups[padsGroup].hasMesh
   THEN {[object |-> PadsRef(padsGroup), instanceId |-> i] : i \in 0 .. (groups[padsGroup].count - 1)}
   ELSE {})
  \cup {[object |-> MeshRef(m), instanceId |-> Undef] : m \in Range(traces) \cup Range(components)}

\* the intersections of one ray, nearest first
HitLists ==
  {<<>>} \cup {<<h>> : h \in Pickable}
         \cup {<<pair[1], pair[2]>> : pair \in {q \in Pickable \X Pickable : q[1] # q[2]}}

\* _onMouseMove reads the nearest intersection only
MoveHitLists == {<<>>} \cup {<<h>> : h \in Pickable}

\* where TransformControls can put the handle
DragPositions == {<<3 * Unit, OffY, 0>>, <<0, SurfaceOffsetPad, 3 * Unit>>}

Updates == {[field |-> "x", value |-> 4 * Unit], [field |-> "z", value |-> 4 * Unit],
            [field |-> "width", value |-> 3 * Unit], [field |-> "height", value |-> 3 * Unit]}

---------------------------------------------------------------------------
(* Specification *)

\* the engine right after its constructor (no controller yet: im holds the fields a
\* controller starts with), and the App's `selected` state
EmptyEngine ==
  [board |-> 0, boards |-> <<>>, padsGroup |-> 0, groups |-> <<>>, traces |-> <<>>,
   components |-> <<>>, meshes |-> <<>>, im |-> InitIm, selected |-> NullSel,
   life |-> InitLife, emitted |-> <<>>, log |-> <<>>]

\* App's mount effect: the default board, the first MountPads pads of the 10 x 10 pad grid
\* (id pad_i_j, y 0.8, size [2, 3]), the first MountTraces demo traces, then
\* setupInteraction and start
MountBoard == [width |-> 100 * Unit, height |-> 80 * Unit, thickness |-> 16000]
MountGrid ==
  [k \in 1 .. MountPads |->
     LET i == (k - 1) \div 10
         j == (k - 1) % 10
     IN  [id |-> <<"pad_", i, j>>,
          position |-> <<(i - 5) * 6 * Unit, SurfaceOffsetPad, (j - 5) * 6 * Unit>>,
          size |-> <<2 * Unit, 3 * Unit>>]]
DemoTraces ==
  << [start |-> <<0 - 20 * Unit, SurfaceOffsetTrace, 0 - 20 * Unit>>,
      end |-> <<20 * Unit, SurfaceOffsetTrace, 20 * Unit>>, width |-> 1 * Unit],
     [start |-> <<0 - 20 * Unit, SurfaceOffsetTrace, 20 * Unit>>,
      end |-> <<20 * Unit, SurfaceOffsetTrace, 0 - 20 * Unit>>, width |-> 7000] >>
MountDemoTraces ==
  SubSeq(DemoTraces, 1, IF MountTraces < Len(DemoTraces) THEN MountTraces ELSE Len(DemoTraces))
Mounted ==
  start(setupInteraction(
    addTraces(addPads(setBoard(EmptyEngine, MountBoard), MountGrid), MountDemoTraces)))

Init ==
  /\ board = Mounted.board
  /\ boards = Mounted.boards
  /\ padsGroup = Mounted.padsGroup
  /\ groups = Mounted.groups
  /\ traces = Mounted.traces
  /\ components = Mounted.components
  /\ meshes = Mounted.meshes
  /\ im = Mounted.im
  /\ selected = Mounted.selected
  /\ life = Mounted.life
  /\ emitted = <<>>
  /\ steps = 0
  /\ ev = Event("init", <<>>, <<>>)

\* The App drops its engine reference when it disposes the engine (its unmount cleanup), so
\* no engine operation and no property patch follows a dispose; the canvas and handle
\* handlers run while their listeners are attached.
AddPads ==
  \E data \in PadLists :
    /\ steps < MaxSteps
    /\ ~life.isDisposed
    /\ InBounds(addPads(Cur, data))
    /\ LET done == addPads(Cur, data)
       IN  /\ Commit(done)
           /\ ev' = Event("addPads", data, done.log)
    /\ steps' = steps + 1

AddTraces ==
  \E data \in TraceLists :
    /\ steps < MaxSteps
    /\ ~life.isDisposed
    /\ InBounds(addTraces(Cur, data))
    /\ LET done == addTraces(Cur, data)
       IN  /\ Commit(done)
           /\ ev' = Event("addTraces", data, done.log)
    /\ steps' = steps + 1

AddComponent ==
  \E c \in ComponentInputs :
    /\ steps < MaxSteps
    /\ ~life.isDisposed
    /\ InBounds(addComponent(Cur, c))
    /\ LET done == addComponent(Cur, c)
       IN  /\ Commit(done)
           /\ ev' = Event("addComponent", <<c>>, done.log)
    /\ steps' = steps + 1

SetBoard ==
  \E config \in BoardConfigs :
    /\ steps < MaxSteps
    /\ ~life.isDisposed
    /\ InBounds(setBoard(Cur, config))
    /\ LET done == setBoard(Cur, config)
       IN  /\ Commit(done)
           /\ ev' = Event("setBoard", <<config>>, done.log)
    /\ steps' = steps + 1

LoadBoard ==
  \E jsonData \in JsonInputs :
    /\ steps < MaxSteps
    /\ ~life.isDisposed
    /\ InBounds(loadBoard(Cur, jsonData))
    /\ LET done == loadBoard(Cur, jsonData)
       IN  /\ Commit(done)
           /\ ev' = Event("loadBoard", <<jsonData>>, done.log)
    /\ steps' = steps + 1

MouseMove ==
  \E hits \in MoveHitLists :
    /\ steps < MaxSteps
    /\ life.listening
    /\ LET done == onMouseMove(Cur, hits)
       IN  /\ Commit(done)
           /\ ev' = Event("mousemove", <<hits>>, done.log)
    /\ steps' = steps + 1

\* the click, drag and patch handlers as such; Click, TransformDrag and PropertyUpdate
\* are these within a behaviour of MaxSteps steps
ClickStep ==
  \E hits \in HitLists :
    /\ life.listening
    /\ LET done == onClick(Cur, hits)
       IN  /\ Commit(done)
           /\ ev' = Event(IF hits = <<>> THEN "clickEmpty" ELSE "click", <<hits>>, done.log)
    /\ steps' = steps + 1

TransformDragStep ==
  \E p \in DragPositions :
    /\ life.listening
    /\ im.tcObject # NoneRef
    /\ LET done == onTransformDrag(moveHandle(Cur, p))
       IN  /\ Commit(done)
           /\ ev' = Event("drag", <<>>, done.log)
    /\ steps' = steps + 1

PropertyUpdateStep ==
  \E update \in Updates :
    /\ ~life.isDisposed
    /\ LET done == handlePropertyUpdate(Cur, update)
       IN  /\ Commit(done)
           /\ ev' = Event("patch", <<update>>, done.log)
    /\ steps' = steps + 1

Click ==
  /\ steps < MaxSteps
  /\ ClickStep

TransformDrag ==
  /\ steps < MaxSteps
  /\ TransformDragStep

PropertyUpdate ==
  /\ steps < MaxSteps
  /\ PropertyUpdateStep

Start ==
  /\ steps < MaxSteps
  /\ LET done == start(Cur)
     IN  /\ Commit(done)
         /\ ev' = Event("start", <<>>, done.log)
  /\ steps' = steps + 1

Stop ==
  /\ steps < MaxSteps
  /\ LET done == stop(Cur)
     IN  /\ Commit(done)
         /\ ev' = Event("stop", <<>>, done.log)
  /\ steps' = steps + 1

Tick ==
  \E id \in life.pending :
    /\ steps < MaxSteps
    /\ LET done == tick(Cur, id)
       IN  /\ Commit(done)
           /\ ev' = Event("tick", <<>>, done.log)
    /\ steps' = steps + 1

Dispose ==
  /\ steps < MaxSteps
  /\ LET done == dispose(Cur)
     IN  /\ Commit(done)
         /\ ev' = Event("dispose", <<>>, done.log)
  /\ steps' = steps + 1

Next ==
  \/ AddPads
  \/ AddTraces
  \/ AddComponent
  \/ SetBoard
  \/ LoadBoard
  \/ MouseMove
  \/ Click
  \/ TransformDrag
  \/ PropertyUpdate
  \/ Start
  \/ Stop
  \/ Tick
  \/ Dispose

Spec == Init /\ [][Next]_vars

\* An editing session on the mounted scene: the user clicks, drags the handle and types
\* into the inspector, MaxEdits times in all; nothing else touches the engine.
EditClick ==
  /\ steps < MaxEdits
  /\ ClickStep

EditDrag ==
  /\ steps < MaxEdits
  /\ TransformDragStep

EditPatch ==
  /\ steps < MaxEdits
  /\ PropertyUpdateStep

EditNext ==
  \/ EditClick
  \/ EditDrag
  \/ EditPatch

EditSpec == Init /\ [][EditNext]_vars

---------------------------------------------------------------------------
(* Properties *)

LastEmitted == emitted[Len(emitted)]

\* the entity the controller holds as selected: its id and type as a snapshot names them
SelectedId ==
  IF im.selectedObject[1] = "pads"
  THEN groups[im.selectedObject[2]].idMap[im.selectedInstanceId].id
  ELSE IF meshes[im.selectedObject[2]].id = NoId
       THEN <<meshes[im.selectedObject[2]].type>>
       ELSE meshes[im.selectedObject[2]].id
SelectedType ==
  IF im.selectedObject[1] = "pads" THEN "pad" ELSE meshes[im.selectedObject[2]].type

\* C1: in every reachable state every pad batch has as many instances as its
\* index-to-metadata map has entries, and the indices of the map (and of the instance
\* buffer) are exactly 0 .. count - 1
C1_BatchMatchesMap ==
  \A g \in DOMAIN groups :
    /\ groups[g].count = Cardinality(DOMAIN groups[g].idMap)
    /\ DOMAIN groups[g].idMap = 0 .. (groups[g].count - 1)
    /\ DOMAIN groups[g].matrix = 0 .. (groups[g].count - 1)
    /\ \A i \in DOMAIN groups[g].idMap : groups[g].idMap[i].instanceId = i

\* a drag has just written into a batch of two or more pads
C1_Witness ==
  /\ ev.kind = "drag"
  /\ emitted # <<>>
  /\ LastEmitted.type = "pad"
  /\ groups[LastEmitted.object[2]].count >= 2

\* C2: right after addPads(entries) with n entries the engine's pad batch has exactly n
\* instances, and instance i and metadata entry i carry the position and size of
\* entries[i], and its id (the default pad_i when the entry has none)
C2_AddPadsInOrder ==
  ev.kind = "addPads" =>
    /\ padsGroup # 0
    /\ groups[padsGroup].count = Len(ev.data)
    /\ groups[padsGroup].inScene
    /\ \A i \in 0 .. (Len(ev.data) - 1) :
         LET entry == ev.data[i + 1]
             meta == groups[padsGroup].idMap[i]
             inst == Decompose(groups[padsGroup].matrix[i])
         IN  /\ meta.id = (IF entry.id = NoId THEN <<"pad_", i>> ELSE entry.id)
             /\ meta.position = entry.position
             /\ meta.size = entry.size
             /\ inst.position = entry.position
             /\ <<inst.scale[1], inst.scale[2]>> = entry.size

\* addPads has just replaced a batch by one of two entries with different sizes
C2_Witness ==
  /\ ev.kind = "addPads"
  /\ Len(ev.data) = 2
  /\ ev.data[1].size # ev.data[2].size
  /\ padsGroup > 1

\* C3: after a click that selected an entity, every selection field of the controller
\* refers to that entity: a selected trace or component leaves no pad proxy, batch
\* reference or instance index behind, and a selected pad is the one the proxy is for
C3_SelectionExclusive ==
  (ev.kind = "click" /\ emitted # <<>>) =>
    /\ im.selectedObject = LastEmitted.object
    /\ im.selectedObject[1] = "mesh" =>
         /\ im.selectedInstanceId = 0 - 1
         /\ im.dummy = NoDummy
         /\ im.instanceMesh = 0
         /\ im.instanceId < 0
    /\ im.selectedObject[1] = "pads" =>
         /\ im.selectedInstanceId = LastEmitted.instanceId
         /\ im.instanceMesh = im.selectedObject[2]
         /\ im.instanceId = im.selectedInstanceId

\* C4: after a click on empty space the hover index and the selected index are -1, the
\* selected object is null, the handle is detached and the listener got exactly one null
C4_DeselectResets ==
  ev.kind = "clickEmpty" =>
    /\ im.hoveredInstanceId = 0 - 1
    /\ im.selectedInstanceId = 0 - 1
    /\ im.selectedObject = NoneRef
    /\ im.tcObject = NoneRef
    /\ emitted = <<NullSel>>

\* C5: a step of addPads or loadBoard taken while a pad is hovered or selected leaves the
\* hover index and the selection empty and the handle detached
C5_ReplaceResets ==
  [][(/\ ev'.kind \in {"addPads", "loadBoard"}
      /\ (im.hoveredInstanceId # 0 - 1 \/ im.selectedObject[1] = "pads"))
     => (/\ im'.hoveredInstanceId = 0 - 1
         /\ im'.selectedInstanceId = 0 - 1
         /\ im'.selectedObject = NoneRef
         /\ im'.tcObject = NoneRef)]_vars

\* C6: a drag update or a property patch changes no instance transform and no metadata
\* entry of a pad batch other than the engine's current one
C6_NoStaleWrite ==
  [][ev'.kind \in {"drag", "patch"}
     => \A g \in DOMAIN groups :
          g # padsGroup => /\ groups'[g].matrix = groups[g].matrix
                           /\ groups'[g].idMap = groups[g].idMap]_vars

C8_SurfacePinned ==
  /\ padsGroup # 0 =>
       \A i \in DOMAIN groups[padsGroup].idMap :
         groups[padsGroup].idMap[i].position[2] = SurfaceOffsetPad
  /\ \A k \in DOMAIN traces : meshes[traces[k]].position[2] = SurfaceOffsetTrace

C10_DragNotifiesSelected ==
  (ev.kind = "drag" /\ im.selectedObject # NoneRef) =>
    /\ emitted # <<>>
    /\ LastEmitted.id = SelectedId
    /\ LastEmitted.type = SelectedType

\* the engine's, the controller's and the listener's state
engineVars == <<board, boards, padsGroup, groups, traces, components, meshes, im, selected, life>>

\* the handler of event e did `what`
Did(e, what) == \E i \in DOMAIN e.log : e.log[i] = what

\* C11: at most one render tick is pending after every step; start() while the loop is
\* running schedules nothing and stop() while it is stopped changes nothing
C11_StartStopIdempotent ==
  [][/\ Cardinality(life'.pending) <= 1
     /\ (ev'.kind = "start" /\ life.animationFrameId # 0)
          => (UNCHANGED engineVars /\ ev'.log = <<>>)
     /\ (ev'.kind = "stop" /\ life.animationFrameId = 0)
          => (UNCHANGED engineVars /\ ev'.log = <<>>)]_vars

\* start() was called on a running loop that had been stopped and restarted before
C11_Witness ==
  /\ ev.kind = "start"
  /\ ev.log = <<>>
  /\ ~life.isDisposed
  /\ life.issued >= 2
  /\ life.pending = {life.animationFrameId}

\* C12: a tick runs, and a render pass is issued, only while the loop is started and
\* the engine is not disposed: a stopped or disposed engine has no pending tick, and
\* start() on a disposed engine does nothing
C12_RenderOnlyWhileRunning ==
  [][/\ (life'.animationFrameId = 0 \/ life'.isDisposed) => life'.pending = {}
     /\ ev'.kind = "tick" => (life.animationFrameId # 0 /\ ~life.isDisposed)
     /\ Did(ev', "render") => (/\ ev'.kind \in {"start", "tick"}
                               /\ ~life'.isDisposed
                               /\ life'.animationFrameId # 0)
     /\ (ev'.kind = "start" /\ life.isDisposed)
          => (UNCHANGED engineVars /\ ev'.log = <<>>)]_vars

\* start() was called on a disposed engine whose loop had been running
C12_Witness ==
  /\ ev.kind = "start"
  /\ life.isDisposed
  /\ life.issued >= 1
  /\ life.pending = {}

\* where the teardown step `what` stands in the log of dispose (0: not there)
StepAt(what) ==
  IF \E i \in DOMAIN ev.log : ev.log[i] = what
  THEN CHOOSE i \in DOMAIN ev.log : ev.log[i] = what
  ELSE 0
StepCount(what) == Cardinality({i \in DOMAIN ev.log : ev.log[i] = what})

\* C13: a dispose() that tears down does each step once and in this order: stop the render
\* loop, detach the interaction controller and its listeners, dispose the scene's geometry
\* and material, dispose the camera controls, release the render surface
C13_TeardownOrder ==
  (ev.kind = "dispose" /\ ev.log # <<>>) =>
    /\ \A what \in {"stop", "interaction", "resources", "controls", "renderer"} :
         StepCount(what) = 1
    /\ StepAt("stop") < StepAt("interaction")
    /\ StepAt("interaction") < StepAt("resources")
    /\ StepAt("resources") < StepAt("controls")
    /\ StepAt("controls") < StepAt("renderer")
    /\ life.animationFrameId = 0 /\ life.pending = {}
    /\ ~life.listening /\ ~life.interactionManager
    /\ life.controlsDisposed /\ life.rendererDisposed /\ ~life.canvasMounted

\* dispose() has torn down an engine whose loop was running and that had a selection
C13_Witness ==
  /\ ev.kind = "dispose"
  /\ Did(ev, "cancel")
  /\ Did(ev, "renderer")
  /\ im.selectedObject # NoneRef

\* C14: dispose() on a disposed engine does no teardown step and changes no state
C14_DisposeIdempotent ==
  [][(ev'.kind = "dispose" /\ life.isDisposed)
     => (UNCHANGED engineVars /\ ev'.log = <<>>)]_vars

\* dispose() was called a second time
C14_Witness ==
  /\ ev.kind = "dispose"
  /\ ev.log = <<>>
  /\ life.isDisposed
  /\ life.rendererDisposed

\* C15: a step of addPads or loadBoard that replaces a pad batch leaves the geometry and
\* material of the previous batch (fill and outline) disposed
C15_ReplaceDisposesBatch ==
  [][(/\ ev'.kind \in {"addPads", "loadBoard"}
      /\ padsGroup # 0
      /\ groups[padsGroup].hasMesh
      /\ padsGroup' # padsGroup)
     => groups'[padsGroup].disposed]_vars

\* C16: after a dispose() that tore down, every board, pad batch, trace and component
\* built so far, and the grid and the handle, have their geometry and material disposed
C16_NoLeakAfterDispose ==
  (ev.kind = "dispose" /\ ev.log # <<>>) =>
    /\ \A b \in DOMAIN boards : boards[b].disposed
    /\ \A g \in DOMAIN groups : groups[g].hasMesh => groups[g].disposed
    /\ \A m \in DOMAIN meshes : meshes[m].disposed
    /\ life.gridDisposed
    /\ life.handleDisposed

\* the entries createTrace builds a mesh for
Drawn(traceArray) == SelectSeq(traceArray, LAMBDA t : t.start # t.end)

\* C17: right after addPads the newest group is the engine's batch and the only group in
\* the scene; right after addTraces the engine's traces are the meshes just built from
\* the list, in its order, and no other trace mesh is in the scene
C17_FullReplace ==
  /\ ev.kind = "addPads" =>
       /\ padsGroup = Len(groups)
       /\ \A g \in DOMAIN groups : groups[g].inScene <=> g = padsGroup
  /\ ev.kind = "addTraces" =>
       LET built == Drawn(ev.data)
           before == Len(meshes) - Len(built)
       IN  /\ Len(traces) = Len(built)
           /\ \A k \in DOMAIN traces :
                /\ traces[k] = before + k
                /\ meshes[traces[k]].start = built[k].start
                /\ meshes[traces[k]].end = built[k].end
                /\ meshes[traces[k]].width = built[k].width
           /\ \A m \in DOMAIN meshes :
                meshes[m].kind = "trace" => (meshes[m].inScene <=> m > before)

\* addTraces has replaced an earlier trace by the trace of a one-entry list
C17_Witness ==
  /\ ev.kind = "addTraces"
  /\ Len(ev.data) = 1
  /\ Len(traces) = 1
  /\ traces[1] > 1
  /\ ~meshes[1].inScene

\* C18: the scene holds exactly one board, the newest, at the origin; every earlier
\* board is out of the scene and disposed; a setBoard disposes the old board before it
\* creates the new one, whose config carries every key the call gave
C18_SingleBoard ==
  /\ board = Len(boards)
  /\ board # 0
  /\ \A b \in DOMAIN boards :
       /\ boards[b].inScene <=> b = board
       /\ b # board => boards[b].disposed
  /\ boards[board].position = <<0, 0, 0>>
  /\ ~life.isDisposed => ~boards[board].disposed
  /\ ev.kind = "setBoard" =>
       /\ ev.log = <<"disposeBoard", "createBoard">>
       /\ \A key \in {"width", "height", "thickness"} :
            ev.data[1][key] \notin {Absent, Undef}
              => boards[board].config[key] = ev.data[1][key]

\* setBoard has replaced the mounted board by one built from a width alone
C18_Witness ==
  /\ ev.kind = "setBoard"
  /\ Len(boards) = 2
  /\ ev.data[1].height = Absent
  /\ boards[2].config.width = 60 * Unit

\* C19: a loadBoard whose text does not parse fails with the SyntaxError and changes
\* nothing: board, pad batch, traces, components, controller and selection stay
C19_ParseFailureKeepsState ==
  [][(ev'.kind = "loadBoard" /\ ~ev'.data[1].wellFormed)
     => (UNCHANGED engineVars /\ ev'.log = <<"SyntaxError">>)]_vars

\* a load failed to parse while a pad was selected
C19_Witness ==
  /\ ev.kind = "loadBoard"
  /\ ~ev.data[1].wellFormed
  /\ im.selectedObject[1] = "pads"
  /\ padsGroup # 0

\* C20: a loadBoard step on a parsed document leaves nothing built earlier in the scene
\* or in the engine's collections: the batch is the one built from the document's pads
\* (none when it has none), the traces and components are those built from its entries
C20_LoadReplacesAll ==
  [][(ev'.kind = "loadBoard" /\ ev'.data[1].wellFormed /\ ~ev'.data[1].isNull) =>
       LET data == ev'.data[1].doc
           padsSource == data.pads \o filterType(data.components, "pad")
           built == Drawn(processSegments(data.traces \o filterType(data.components, "trace")))
           componentsSource == data.components \o data.holes \o viaEntries(data.vias)
       IN  /\ \A g \in DOMAIN groups : ~groups'[g].inScene
           /\ \A m \in DOMAIN meshes : ~meshes'[m].inScene
           /\ IF Len(padsSource) = 0 THEN padsGroup' = 0
              ELSE /\ padsGroup' = Len(groups')
                   /\ padsGroup' > Len(groups)
                   /\ groups'[padsGroup'].count = Len(padsSource)
                   /\ groups'[padsGroup'].inScene
           /\ Len(traces') = Len(built)
           /\ \A k \in DOMAIN traces' :
                /\ traces'[k] = Len(meshes) + k
                /\ meshes'[traces'[k]].start = built[k].start
                /\ meshes'[traces'[k]].end = built[k].end
           /\ Len(components') = Len(componentsSource)
           /\ \A k \in DOMAIN components' :
                /\ components'[k] = Len(meshes) + Len(built) + k
                /\ meshes'[components'[k]].id = componentsSource[k].id
           /\ Len(meshes') = Len(meshes) + Len(built) + Len(componentsSource)
           /\ \A m \in DOMAIN meshes' : m > Len(meshes) => meshes'[m].inScene]_vars

\* a document without pads was loaded over the mounted pads and traces
C20_Witness ==
  /\ ev.kind = "loadBoard"
  /\ ev.data[1].wellFormed
  /\ ev.data[1].doc.pads = <<>>
  /\ ev.data[1].doc.traces # <<>>
  /\ padsGroup = 0
  /\ Len(traces) = 2

\* the (position, size) pairs of the pads the engine state s holds in its batch, and the
\* (position, width) pairs of its traces
PadSet(s) ==
  IF s.padsGroup # 0
  THEN {<<s.groups[s.padsGroup].idMap[i].position, s.groups[s.padsGroup].idMap[i].size>> :
          i \in DOMAIN s.groups[s.padsGroup].idMap}
  ELSE {}
TraceSet(s) == {<<s.meshes[m].position, s.meshes[m].width>> : m \in Range(s.traces)}

\* C21: in every reachable state of a live engine, loading the output of serializeBoard
\* back with loadBoard yields pads with the same set of positions and sizes, and traces
\* with the same set of positions and widths, as the engine holds now
C21_RoundTrip ==
  ~life.isDisposed =>
    LET back == loadBoard(Cur, JsonObject(serializeBoard(Cur)))
    IN  /\ PadSet(back) = PadSet(Cur)
        /\ TraceSet(back) = TraceSet(Cur)

\* C22: the output of serializeBoard carries the current board's dimensions and exactly
\* one entry for every pad (type, id, position, size), every trace (type, end points,
\* width) and every generic component (type, id, position, size) the engine holds
C22_SerializeComplete ==
  ~life.isDisposed =>
    LET out == serializeBoard(Cur)
        entries == out.components
        idMap == IF padsGroup # 0 THEN groups[padsGroup].idMap ELSE <<>>
    IN  /\ board # 0 => /\ out.board.width = boards[board].config.width
                        /\ out.board.height = boards[board].config.height
                        /\ out.board.thickness = boards[board].config.thickness
        /\ Len(entries) = Cardinality(DOMAIN idMap) + Len(traces) + Len(components)
        /\ \A i \in DOMAIN idMap :
             \E k \in DOMAIN entries :
               /\ entries[k].type = "pad"
               /\ entries[k].id = idMap[i].id
               /\ entries[k].position = idMap[i].position
               /\ entries[k].size = idMap[i].size
        /\ \A j \in DOMAIN traces :
             \E k \in DOMAIN entries :
               /\ entries[k].type = "trace"
               /\ entries[k].start = meshes[traces[j]].start
               /\ entries[k].end = meshes[traces[j]].end
               /\ entries[k].width = meshes[traces[j]].width
        /\ \A j \in DOMAIN components :
             \E k \in DOMAIN entries :
               /\ entries[k].type = meshes[components[j]].type
               /\ entries[k].id = meshes[components[j]].id
               /\ entries[k].position = meshes[components[j]].position
               /\ entries[k].size = meshes[components[j]].size

\* the value the board document b gives for key: nested, else flat, else none (Absent)
DocBoardValue(b, key) ==
  IF b.dimensions[key] \notin {Absent, Undef} THEN b.dimensions[key]
  ELSE IF b[key] \notin {Absent, Undef} THEN b[key] ELSE Absent

BoardDefaults ==
  [width |-> DefaultBoardWidth, height |-> DefaultBoardHeight,
   thickness |-> DefaultBoardThickness]

\* the last handler was a loadBoard that got a document
Loaded == ev.kind = "loadBoard" /\ ev.data[1].wellFormed /\ ~ev.data[1].isNull

\* C23: right after loadBoard of a document with a board, each of width, height and
\* thickness of the engine's board is the value nested under board.dimensions when
\* there is one, otherwise the flat board value when there is one, otherwise the
\* built-in default (100, 80, 1.6)
C23_BoardDimensions ==
  (Loaded /\ ev.data[1].doc.board.present) =>
    \A key \in {"width", "height", "thickness"} :
      boards[board].config[key] =
        (IF DocBoardValue(ev.data[1].doc.board, key) # Absent
         THEN DocBoardValue(ev.data[1].doc.board, key)
         ELSE BoardDefaults[key])

\* the components that loadBoard built from the document's holes array: they follow the
\* document's components in engine.components
HoleMesh(k) == meshes[components[Len(ev.data[1].doc.components) + k]]

\* C24: right after loadBoard, every entry of the document's holes array has yielded one
\* via-typed component whose radius is the entry's radius, or its drill when it has no
\* radius
C24_HolesAreVias ==
  Loaded =>
    LET doc == ev.data[1].doc
    IN  /\ Len(components) = Len(doc.components) + Len(doc.holes) + Len(doc.vias)
        /\ \A k \in DOMAIN doc.holes :
             /\ HoleMesh(k).type = "via"
             /\ HoleMesh(k).radius = (IF doc.holes[k].radius # Undef THEN doc.holes[k].radius
                                      ELSE doc.holes[k].drill)

\* the polyline of a trace entry (points, else path), and the point it names as a vector
\* on the trace surface
Polyline(t) == IF Len(t.points) >= 2 THEN t.points ELSE t.path
OnTraceSurface(p) == IF Len(p) = 2 THEN <<p[1], SurfaceOffsetTrace, p[2]>> ELSE p
EntryWidth(t) ==
  IF t.width # Undef THEN t.width ELSE IF t.thickness # Undef THEN t.thickness ELSE 5000

\* how many segments the first n trace entries of the list yield: k - 1 for a polyline
\* of k points, one for a start / end pair
RECURSIVE SegmentsBefore(_, _)
SegmentsBefore(list, n) ==
  IF n = 0 THEN 0
  ELSE SegmentsBefore(list, n - 1)
       + (IF Len(Polyline(list[n])) >= 2 THEN Len(Polyline(list[n])) - 1
          ELSE IF list[n].start # NoVec /\ list[n].end # NoVec THEN 1 ELSE 0)

\* C25: right after loadBoard, a trace entry whose points (or path) polyline has k >= 2
\* points has yielded exactly k - 1 traces, the i-th running from point i to point i + 1,
\* each with the entry's width (else its thickness, else 0.5); no polyline of the
\* documents repeats a point
C25_PolylineSegments ==
  Loaded =>
    LET doc == ev.data[1].doc
        list == doc.traces \o filterType(doc.components, "trace")
    IN  /\ Len(traces) = SegmentsBefore(list, Len(list))
        /\ \A n \in DOMAIN list :
             Len(Polyline(list[n])) >= 2 =>
               \A i \in 1 .. (Len(Polyline(list[n])) - 1) :
                 LET mesh == meshes[traces[SegmentsBefore(list, n - 1) + i]]
                 IN  /\ mesh.start = OnTraceSurface(Polyline(list[n])[i])
                     /\ mesh.end = OnTraceSurface(Polyline(list[n])[i + 1])
                     /\ mesh.width = EntryWidth(list[n])

\* a points polyline of three points was loaded and gave two traces, the second starting
\* where the first ends
C25_Witness ==
  /\ Loaded
  /\ ev.data[1].doc.traces # <<>>
  /\ Len(ev.data[1].doc.traces[1].points) = 3
  /\ Len(traces) = 2
  /\ meshes[traces[2]].start = meshes[traces[1]].end
  /\ meshes[traces[2]].width = 5000

\* C27: a step that changes the hover index (a pad becomes hovered, the hover moves, the
\* hover is lost) notifies the selection listener, and so does a click that changes the
\* selection, a click on empty space, and a drag update of a selected pad or trace
C27_HoverNotifies ==
  [][/\ im'.hoveredInstanceId # im.hoveredInstanceId => emitted' # <<>>
     /\ (ev'.kind = "click" /\ im'.selectedObject # im.selectedObject) => emitted' # <<>>
     /\ ev'.kind = "clickEmpty" => emitted' = <<NullSel>>
     /\ (ev'.kind = "drag"
         /\ (\/ im.selectedObject[1] = "pads"
             \/ (im.selectedObject[1] = "mesh"
                 /\ meshes[im.selectedObject[2]].type = "trace")))
          => emitted' # <<>>]_vars

\* C29: in every reachable state, for every index i of the engine's pad batch, the
\* position and the size encoded in instance transform i are the position and the size
\* of metadata entry i
C29_TransformMatchesMeta ==
  padsGroup # 0 =>
    \A i \in DOMAIN groups[padsGroup].idMap :
      LET inst == Decompose(groups[padsGroup].matrix[i])
      IN  /\ inst.position = groups[padsGroup].idMap[i].position
          /\ <<inst.scale[1], inst.scale[2]>> = groups[padsGroup].idMap[i].size

\* C30: a step that builds a pad batch, drags a pad or patches a pad leaves every batch
\* with bounding volumes computed after its latest transform write, and a pick (pointer
\* move or click) is never performed against a batch whose bounds are older than that
C30_BoundsFollowWrites ==
  [][/\ ev'.kind \in {"addPads", "loadBoard", "drag", "patch"}
          => \A g \in DOMAIN groups' : groups'[g].boundsFresh
     /\ (ev'.kind \in {"mousemove", "click", "clickEmpty"} /\ padsGroup # 0)
          => groups[padsGroup].boundsFresh]_vars

\* the x, z, width and height of pad instance i of batch g: as the instance transform
\* encodes them, and as the metadata entry holds them
InstanceFields(g, i) ==
  LET inst == Decompose(g.matrix[i])
  IN  [x |-> inst.position[1], z |-> inst.position[3],
       width |-> inst.scale[1], height |-> inst.scale[2]]
MetaFields(g, i) ==
  [x |-> g.idMap[i].position[1], z |-> g.idMap[i].position[3],
   width |-> g.idMap[i].size[1], height |-> g.idMap[i].size[2]]

\* C26: a property patch changes only the entity the listener holds as selected, and of
\* that entity only the field the patch names (x, z, width or height): every other pad
\* instance, trace and component stays as it was, the other three fields of the patched
\* pad or trace keep their values, and with nothing selected no engine state changes
C26_PatchFrame ==
  [][ev'.kind = "patch" =>
       LET field == ev'.data[1].field
           others == {"x", "z", "width", "height"} \ {field}
       IN  /\ selected = NullSel =>
                UNCHANGED <<board, boards, padsGroup, groups, traces, components, meshes, im>>
           /\ UNCHANGED <<board, boards, padsGroup, traces, components, im>>
           /\ \A g \in DOMAIN groups :
                \A i \in DOMAIN groups[g].idMap :
                  IF selected.type = "pad" /\ selected.object = PadsRef(g)
                     /\ selected.instanceId = i
                  THEN \A f \in others :
                         /\ InstanceFields(groups'[g], i)[f] = InstanceFields(groups[g], i)[f]
                         /\ MetaFields(groups'[g], i)[f] = MetaFields(groups[g], i)[f]
                  ELSE /\ groups'[g].matrix[i] = groups[g].matrix[i]
                       /\ groups'[g].idMap[i] = groups[g].idMap[i]
           /\ \A m \in DOMAIN meshes :
                IF selected.type = "trace" /\ selected.object = MeshRef(m)
                THEN /\ field # "x" => meshes'[m].position[1] = meshes[m].position[1]
                     /\ field # "z" => meshes'[m].position[3] = meshes[m].position[3]
                     /\ meshes'[m].width = meshes[m].width
                ELSE meshes'[m] = meshes[m]]_vars

\* C28: a drag update changes only the selected entity: while pad i of a batch is
\* selected, every trace and component and every other instance transform and metadata
\* entry stays as it was; while a trace or a component is selected, every other
\* drawable and every instance transform and metadata entry of the pad batches stays
C28_DragFrame ==
  [][ev'.kind = "drag" =>
       /\ im.selectedObject[1] = "pads" =>
            /\ meshes' = meshes
            /\ \A g \in DOMAIN groups :
                 \A i \in DOMAIN groups[g].idMap :
                   (PadsRef(g) # im.selectedObject \/ i # im.selectedInstanceId) =>
                     /\ groups'[g].matrix[i] = groups[g].matrix[i]
                     /\ groups'[g].idMap[i] = groups[g].idMap[i]
       /\ im.selectedObject[1] = "mesh" =>
            /\ \A m \in DOMAIN meshes :
                 MeshRef(m) # im.selectedObject => meshes'[m] = meshes[m]
            /\ \A g \in DOMAIN groups :
                 /\ groups'[g].matrix = groups[g].matrix
                 /\ groups'[g].idMap = groups[g].idMap]_vars

\* outline instance i of batch g lies where fill instance i lies, up to the outline's
\* fixed offset, and has its scale
Mirrors(g, i) ==
  /\ g.edge[i].s = g.matrix[i].s
  /\ g.edge[i].t[1] = g.matrix[i].t[1]
  /\ Abs(g.edge[i].t[2] - g.matrix[i].t[2]) <= EdgeNudge
  /\ Abs(g.edge[i].t[3] - g.matrix[i].t[3]) <= EdgeNudge

\* C31: in every reachable state, also after a drag update or a property patch of a pad,
\* every outline instance of the engine's pad batch mirrors the fill instance of the same
\* index: same position up to the outline's fixed offset, same scale
C31_OutlineFollowsFill ==
  (padsGroup # 0 /\ groups[padsGroup].hasMesh) =>
    /\ DOMAIN groups[padsGroup].edge = DOMAIN groups[padsGroup].matrix
    /\ \A i \in DOMAIN groups[padsGroup].matrix : Mirrors(groups[padsGroup], i)

\* C32: right after a build (addPads, loadBoard) the engine's batch has as many outline
\* instances as fill instances, and outline instance i has the scale, the rotation and the
\* in-plane position (x, z) of fill instance i and differs from it only by the fixed
\* offset along y, the board normal
C32_OutlineOffsetAlongNormal ==
  (ev.kind \in {"addPads", "loadBoard"} /\ padsGroup # 0 /\ groups[padsGroup].hasMesh) =>
    /\ DOMAIN groups[padsGroup].edge = DOMAIN groups[padsGroup].matrix
    /\ \A i \in DOMAIN groups[padsGroup].matrix :
         LET fill == groups[padsGroup].matrix[i]
             outline == groups[padsGroup].edge[i]
         IN  /\ outline.s = fill.s
             /\ outline.r = fill.r
             /\ outline.t[1] = fill.t[1]
             /\ outline.t[3] = fill.t[3]
             /\ outline.t[2] - fill.t[2] = EdgeNudge

\* the first of the hits whose drawable carries one of the type tags; NoHit when none does
FirstOfType(hits, types) ==
  LET I == {i \in DOMAIN hits :
              IF hits[i].object[1] = "pads" THEN "pads_copper" \in types
              ELSE meshes[hits[i].object[2]].type \in types}
  IN  IF I = {} THEN NoHit ELSE hits[CHOOSE i \in I : \A j \in I : i <= j]

\* the hit a click is to resolve to: a pad batch hit if there is one, else the first
\* standalone component, else the nearest hit; NoHit for a click on nothing
Resolved(hits) ==
  IF hits = <<>> THEN NoHit
  ELSE IF FirstOfType(hits, {"pads_copper"}) # NoHit THEN FirstOfType(hits, {"pads_copper"})
  ELSE IF FirstOfType(hits, CompTypes) # NoHit THEN FirstOfType(hits, CompTypes)
  ELSE hits[1]

C34_StandaloneClickSelects ==
  (ev.kind = "click" /\ Resolved(ev.data[1]).object[1] = "mesh") =>
    LET want == Resolved(ev.data[1])
        mesh == meshes[want.object[2]]
    IN  /\ im.selectedObject = want.object
        /\ im.tcObject = want.object
        /\ emitted # <<>>
        /\ LastEmitted.object = want.object
        /\ mesh.id # NoId => LastEmitted.id = mesh.id

\* C34 as the code has it: a click whose resolved hit is a trace or a component with a
\* recognised type tag (ic, component, connector, capacitor, via) makes that drawable the
\* selection, attaches the handle to it and notifies the listener with its id; a click
\* whose resolved hit is a component with any other type tag is ignored: the selection,
\* the handle and the listener's last notification stay as they were
C34_RecognisedClickSelects ==
  [][(ev'.kind = "click" /\ Resolved(ev'.data[1]).object[1] = "mesh") =>
       LET want == Resolved(ev'.data[1])
           mesh == meshes[want.object[2]]
       IN  IF mesh.type \in CompTypes \cup {"trace"}
           THEN /\ im'.selectedObject = want.object
                /\ im'.tcObject = want.object
                /\ emitted' # <<>>
                /\ emitted'[Len(emitted')].object = want.object
                /\ mesh.id # NoId => emitted'[Len(emitted')].id = mesh.id
           ELSE /\ im' = im
                /\ selected' = selected
                /\ emitted' = <<>>]_vars

\* a click on a recognised component, nothing else under the pointer, has selected it,
\* attached the handle to it and notified the listener with its id
C34_Witness ==
  /\ ev.kind = "click"
  /\ Len(ev.data[1]) = 1
  /\ ev.data[1][1].object[1] = "mesh"
  /\ meshes[ev.data[1][1].object[2]].type \in CompTypes
  /\ im.selectedObject = ev.data[1][1].object
  /\ im.tcObject = ev.data[1][1].object
  /\ emitted # <<>>
  /\ LastEmitted.id = meshes[ev.data[1][1].object[2]].id

\* the hover index a pointer move over these intersections is to produce: the instance
\* index of the nearest one when it is on the pad batch, -1 otherwise
HoverTarget(hits) ==
  IF hits # <<>> /\ hits[1].object[1] = "pads" THEN hits[1].instanceId ELSE 0 - 1

\* C35: a pointer move sets the hover index to the instance index of the nearest
\* intersection when that is on the pad batch and to -1 otherwise (a standalone drawable,
\* or nothing); when that index is the current one, neither the controller's state nor
\* any material's channels are written
C35_HoverWriteOnChange ==
  [][ev'.kind = "mousemove" =>
       /\ im'.hoveredInstanceId = HoverTarget(ev'.data[1])
       /\ HoverTarget(ev'.data[1]) = im.hoveredInstanceId =>
            /\ im' = im
            /\ groups' = groups
            /\ meshes' = meshes]_vars

\* a pointer move over a pad instance has made it the hovered one, in the controller and
\* in the batch's material
C35_Witness ==
  /\ ev.kind = "mousemove"
  /\ ev.data[1] # <<>>
  /\ ev.data[1][1].object[1] = "pads"
  /\ im.hoveredInstanceId = ev.data[1][1].instanceId
  /\ groups[ev.data[1][1].object[2]].uHovered = ev.data[1][1].instanceId

\* C36: at the end of every event that changes the controller's hover index or selected
\* index, every material in the scene that has the two channels (the pad batches' and
\* the traces' materials) holds the controller's
\* current hover index and selected index; after a deselect the selected channel holds -1
C36_ChannelsFollowController ==
  [][(im'.hoveredInstanceId # im.hoveredInstanceId
        \/ im'.selectedInstanceId # im.selectedInstanceId) =>
       /\ \A g \in DOMAIN groups' :
            (groups'[g].inScene /\ groups'[g].hasMesh) =>
              /\ groups'[g].uHovered = im'.hoveredInstanceId
              /\ groups'[g].uSelected = im'.selectedInstanceId
              /\ ev'.kind = "clickEmpty" => groups'[g].uSelected = 0 - 1
       /\ \A m \in DOMAIN meshes' :
            (meshes'[m].inScene /\ meshes'[m].kind = "trace") =>
              /\ meshes'[m].uHovered = im'.hoveredInstanceId
              /\ meshes'[m].uSelected = im'.selectedInstanceId
              /\ ev'.kind = "clickEmpty" => meshes'[m].uSelected = 0 - 1]_vars

\* a click has selected a pad while a pad batch and a trace are in the scene, and both
\* materials hold its index
C36_Witness ==
  /\ ev.kind = "click"
  /\ im.selectedInstanceId >= 0
  /\ \E g \in DOMAIN groups :
       groups[g].inScene /\ groups[g].hasMesh /\ groups[g].uSelected = im.selectedInstanceId
  /\ \E m \in DOMAIN meshes :
       /\ meshes[m].inScene
       /\ meshes[m].kind = "trace"
       /\ meshes[m].uSelected = im.selectedInstanceId

\* C37: right after loadBoard of a well-formed document no standalone drawable stands for
\* a pad or a trace entry of components: the engine's component collection holds no
\* drawable tagged pad or trace, and has one element per entry of components that is
\* tagged neither way, per hole and per via, and no more
C37_TaggedEntriesOneKind ==
  Loaded =>
    LET doc == ev.data[1].doc
        generic == {k \in DOMAIN doc.components : doc.components[k].type \notin {"pad", "trace"}}
    IN  /\ \A m \in Range(components) : meshes[m].type \notin {"pad", "trace"}
        /\ Len(components) = Cardinality(generic) + Len(doc.holes) + Len(doc.vias)

\* trace mesh m is the drawable createTrace builds from entry t
BuiltFrom(m, t) ==
  /\ meshes[m].kind = "trace"
  /\ meshes[m].start = t.start
  /\ meshes[m].end = t.end
  /\ meshes[m].width = t.width

\* C38: right after addTraces(entries) the engine's trace collection has entries.length
\* elements, and its j-th element is the drawable built from entries[j]
C38_OnePerEntry ==
  ev.kind = "addTraces" =>
    /\ Len(traces) = Len(ev.data)
    /\ \A j \in DOMAIN traces : BuiltFrom(traces[j], ev.data[j])

\* C38 as the code has it: right after addTraces(entries) the engine's trace collection
\* has one element per entry whose start and end differ, in input order: its j-th element
\* is the drawable built from the j-th such entry and is in the scene; an entry whose
\* start equals its end yields no drawable
C38_OnePerDrawnEntry ==
  ev.kind = "addTraces" =>
    /\ Len(traces) = Len(Drawn(ev.data))
    /\ \A j \in DOMAIN traces :
         /\ BuiltFrom(traces[j], Drawn(ev.data)[j])
         /\ meshes[traces[j]].inScene
    /\ \A j \in 1 .. (Len(traces) - 1) : traces[j] < traces[j + 1]

\* addTraces got a zero-length entry followed by a proper one and has built one drawable,
\* from the second
C38_Witness ==
  /\ ev.kind = "addTraces"
  /\ Len(ev.data) = 2
  /\ ev.data[1].start = ev.data[1].end
  /\ Len(traces) = 1
  /\ BuiltFrom(traces[1], ev.data[2])

\* entry p states its size in whole forms only: a form it uses, it uses with both numbers
WholeForms(p) == ((p.w = Undef) <=> (p.h = Undef)) /\ ((p.width = Undef) <=> (p.height = Undef))

\* the size the fallback chain names for an entry in whole forms
ChainSize(p) ==
  IF p.size # NoVec THEN p.size
  ELSE IF p.w # Undef THEN <<p.w, p.h>>
  ELSE IF p.width # Undef THEN <<p.width, p.height>>
  ELSE <<1 * Unit, 1 * Unit>>

ChainRadius(c) ==
  IF c.radius # Undef THEN c.radius
  ELSE IF c.drill # Undef THEN c.drill
  ELSE IF c.size # NoVec THEN c.size[1]
  ELSE DefaultViaRadius

\* C40: right after loadBoard of a well-formed document, the via built from an entry has
\* the entry's radius when present, else its drill, else its size[0] when the entry has a
\* size, else the built-in default radius
C40_ViaRadiusChain ==
  Loaded =>
    LET doc == ev.data[1].doc
        source == doc.components \o doc.holes \o viaEntries(doc.vias)
    IN  /\ Len(components) = Len(source)
        /\ \A k \in DOMAIN source :
             source[k].type \in {"via", "hole"} =>
               /\ meshes[components[k]].type = "via"
               /\ meshes[components[k]].radius = ChainRadius(source[k])

====
